---- MODULE Spec2Model ----
(***************************************************************************)
(* A model of jeagle929/tsdbclient:                                        *)
(*   - the subscription bridge tsdbClient.subscribe (src/options.go),      *)
(*     checked under Spec;                                                 *)
(*   - client.Query, checkResponse, Response.Error (src/taosclient.go) and *)
(*     tsdbClient.QueryData (src/options.go), checked under SpecQuery;     *)
(*   - BatchPoints and client.Write (src/taosclient.go), checked under     *)
(*     SpecBatch;                                                          *)
(*   - NewHTTPClient, NewBatchPoints, NewTDEngineClient and the methods of *)
(*     tsdbClient on a failed configuration, checked under SpecConfig;     *)
(*   - String0 and UnescapeString (src/unnamed/part_001), checked under    *)
(*     SpecEscape.                                                         *)
(***************************************************************************)
EXTENDS Integers, Sequences, FiniteSets, TLC

VARIABLES
    \* ---- subscription bridge ----
    pc,          \* position of tsdbClient.subscribe
    topic,       \* argument topic
    chNil,       \* argument chMessage == nil
    chCap,       \* cap(chMessage)
    cancelled,   \* ctx.Done() is closed
    observed,    \* the select of the loop took the ctx.Done() case
    obsAt,       \* Len(calls) when the cancellation was observed
    buf,         \* the buffer of chMessage
    recvWaiting, \* a receiver is blocked in <-chMessage
    received,    \* what the receiver took from chMessage
    chClosed,    \* close(chMessage) has run
    calls,       \* the calls made on the consumer, in order
    subscribed,  \* tsdbCons.Subscribe returned nil
    unsubRes,    \* result of the Unsubscribe of the ctx.Done() case ("none" before)
    pollLog,     \* the events Poll returned, in order
    acquired,    \* consumers returned by newConsumer
    nPolls,      \* Poll calls made
    ev,          \* the event of the last Poll
    polled,      \* ids of the messages Poll returned, in order
    sent,        \* ids of the messages put on chMessage, in order
    sendLog,     \* one entry per send attempt: the channel as the select found it
    ret,         \* the value subscribe returns ("none" until it returns)
    deferred,    \* the deferred calls, next to run first
    \* ---- query path ----
    qpc,         \* "idle", "queried" (client.Query ran), "read" (QueryData ran)
    httpResp,    \* the HTTP response the server gives
    convertNumber,      \* argument of QueryData
    defaultNumberValue, \* tsdbClient.defaultNumberValue
    qRes,        \* what client.Query returned
    qdRes,       \* what tsdbClient.QueryData returned
    \* ---- batch points and client.Write ----
    bpc,         \* "off", "open" (calls on the batch), "written" (Write returned)
    encoding,    \* client.encoding
    bp,          \* the BatchPoints the caller holds (NoBatch: none)
    lastOp,      \* the last call on the batch: its precision argument, its error
    added,       \* the points handed to AddPoint and AddPoints, in call order
    requests,    \* the HTTP requests client.Write issued, in order
    httpOutcome, \* what the HTTP exchange of client.Write gave
    wErr,        \* what client.Write returned
    \* ---- construction from a configuration ----
    cpc,         \* "off", "new", then "http", "batch" or "tsdb"; "crashed"
    cfg,         \* the configuration: address, write encoding, precision
    hcRes,       \* what NewHTTPClient returned
    nbRes,       \* what NewBatchPoints returned
    tcli,        \* the tsdbClient NewTDEngineClient returned
    callRes,     \* the last call on the tsdbClient
    \* ---- String0 and UnescapeString ----
    epc,         \* "off", "in", "escaped", "unescaped", "raw"
    escIn,       \* the string given
    escOut,      \* String0(escIn)
    unOut,       \* UnescapeString(escOut)
    rawOut       \* UnescapeString(escIn)

bridgeVars == <<pc, topic, chNil, chCap, cancelled, observed, obsAt, buf,
                recvWaiting, received, chClosed, calls, acquired, nPolls, ev,
                polled, sent, sendLog, ret, deferred, subscribed, unsubRes,
                pollLog>>
queryVars == <<qpc, httpResp, convertNumber, defaultNumberValue, qRes, qdRes>>
batchVars == <<bpc, encoding, bp, lastOp, added, requests, httpOutcome, wErr>>
configVars == <<cpc, cfg, hcRes, nbRes, tcli, callRes>>
escapeVars == <<epc, escIn, escOut, unOut, rawOut>>
extVars == <<batchVars, configVars, escapeVars>>
vars == <<bridgeVars, queryVars, extVars>>

\* ------------------------------------------------------------------ bounds
MaxPolls == 3
MaxCap == 1
MaxCols == 2
MaxRows == 2

\* --------------------------------------------------------------- constants
taosPollTimeoutMs == 5000
StatusOK == 200
StatusNoContent == 204
StatusInternalServerError == 500
CodeTableNotExists == 9826
CodeStreamNotExists == 9750

\* ------------------------------------------------------------------ errors
ErrTopicEmpty == "invalid args: topic is empty"
ErrChNil == "invalid args: chMessage is nil"
NewConsumerErrors == {"newConsumer failed"}
SubscribeErrors == {"subscribe failed"}
UnsubscribeErrors == {"unsubscribe failed"}
PollErrors == {"tmq error 1", "tmq error 2"}

NoEvent == [kind |-> "nil", err |-> "", id |-> 0]

\* What tsdbCons.Poll can return for its n-th call: nil (timeout), a message,
\* an error, or an event of another type.
PollEvents(n) ==
    {NoEvent, [kind |-> "message", err |-> "", id |-> n],
     [kind |-> "other", err |-> "", id |-> 0]}
    \cup {[kind |-> "error", err |-> e, id |-> 0] : e \in PollErrors}

\* ------------------------------------------------------- subscription bridge
RECURSIVE SeqToSet(_)
SeqToSet(s) == IF s = <<>> THEN {} ELSE {Head(s)} \cup SeqToSet(Tail(s))

\* select { case chMessage <- e: ... default: ... }: the send case is ready
\* when a receiver is blocked on the channel or the buffer has room.
CanSend == recvWaiting \/ Len(buf) < chCap

InitBridge ==
    /\ pc = "entry"
    /\ topic \in {"", "t1"}
    /\ chNil \in BOOLEAN
    /\ chCap \in 0..MaxCap
    /\ cancelled = FALSE
    /\ observed = FALSE
    /\ obsAt = 0
    /\ buf = <<>>
    /\ recvWaiting = FALSE
    /\ received = <<>>
    /\ chClosed = FALSE
    /\ calls = <<>>
    /\ acquired = 0
    /\ nPolls = 0
    /\ ev = NoEvent
    /\ polled = <<>>
    /\ sent = <<>>
    /\ sendLog = <<>>
    /\ ret = "none"
    /\ deferred = <<>>
    /\ subscribed = FALSE
    /\ unsubRes = "none"
    /\ pollLog = <<>>

chanVars == <<buf, recvWaiting, received, chClosed>>
histVars == <<nPolls, ev, polled, sent, sendLog, pollLog>>
resVars == <<subscribed, unsubRes>>
argVars == <<topic, chNil, chCap>>

\* options.go:299-305: the argument checks.
Enter ==
    /\ pc = "entry"
    /\ IF Len(topic) = 0
         THEN pc' = "returned" /\ ret' = ErrTopicEmpty
         ELSE IF chNil
                THEN pc' = "returned" /\ ret' = ErrChNil
                ELSE pc' = "new" /\ ret' = ret
    /\ UNCHANGED <<argVars, cancelled, observed, obsAt, chanVars, calls,
                   acquired, histVars, deferred, resVars, queryVars, extVars>>

\* Mutant of NewConsumer: the consumer's Close is not deferred.
NewConsumer_NoDefer ==
    /\ pc = "new"
    /\ \E r \in {"ok"} \cup NewConsumerErrors :
         IF r = "ok"
           THEN /\ acquired' = acquired + 1
                /\ deferred' = <<>>
                /\ pc' = "subscribe"
                /\ ret' = ret
           ELSE /\ pc' = "returned"
                /\ ret' = r
                /\ UNCHANGED <<acquired, deferred>>
    /\ UNCHANGED <<argVars, cancelled, observed, obsAt, chanVars, calls,
                   histVars, resVars, queryVars, extVars>>

\* options.go:307-311: newConsumer, and defer tsdbCons.Close().
NewConsumer ==
    /\ pc = "new"
    /\ \E r \in {"ok"} \cup NewConsumerErrors :
         IF r = "ok"
           THEN /\ acquired' = acquired + 1
                /\ deferred' = <<"Close">>
                /\ pc' = "subscribe"
                /\ ret' = ret
           ELSE /\ pc' = "returned"
                /\ ret' = r
                /\ UNCHANGED <<acquired, deferred>>
    /\ UNCHANGED <<argVars, cancelled, observed, obsAt, chanVars, calls,
                   histVars, resVars, queryVars, extVars>>

\* options.go:313-317: tsdbCons.Subscribe, and defer tsdbCons.Unsubscribe().
DoSubscribe ==
    /\ pc = "subscribe"
    /\ calls' = Append(calls, "Subscribe")
    /\ \E r \in {"ok"} \cup SubscribeErrors :
         IF r = "ok"
           THEN /\ deferred' = <<"Unsubscribe">> \o deferred
                /\ pc' = "loop"
                /\ ret' = ret
                /\ subscribed' = TRUE
           ELSE /\ pc' = "defer"
                /\ ret' = r
                /\ UNCHANGED <<deferred, subscribed>>
    /\ UNCHANGED <<argVars, cancelled, observed, obsAt, chanVars, acquired,
                   histVars, unsubRes, queryVars, extVars>>

\* options.go:320-332: the select of one loop iteration: the ctx.Done() case
\* when the context is cancelled, the default case otherwise.
LoopSelect ==
    /\ pc = "loop"
    /\ IF cancelled
         THEN pc' = "unsub" /\ observed' = TRUE /\ obsAt' = Len(calls)
         ELSE pc' = "poll" /\ UNCHANGED <<observed, obsAt>>
    /\ UNCHANGED <<argVars, cancelled, chanVars, calls, acquired, histVars,
                   ret, deferred, resVars, queryVars, extVars>>

\* Mutant of DoPoll: an error event is logged and the loop goes on.
DoPoll_ContinueOnError ==
    /\ pc = "poll"
    /\ nPolls < MaxPolls
    /\ nPolls' = nPolls + 1
    /\ calls' = Append(calls, "Poll")
    /\ \E e \in PollEvents(nPolls + 1) :
         /\ ev' = e
         /\ pollLog' = Append(pollLog, e)
         /\ CASE e.kind = "message" ->
                   /\ polled' = Append(polled, e.id)
                   /\ pc' = "send"
                   /\ ret' = ret
              [] OTHER ->
                   /\ pc' = "loop"
                   /\ UNCHANGED <<ret, polled>>
    /\ UNCHANGED <<argVars, cancelled, observed, obsAt, chanVars, acquired,
                   sent, sendLog, deferred, resVars, queryVars, extVars>>

\* options.go:333-347: tsdbCons.Poll and the type switch on its event.
DoPoll ==
    /\ pc = "poll"
    /\ nPolls < MaxPolls
    /\ nPolls' = nPolls + 1
    /\ calls' = Append(calls, "Poll")
    /\ \E e \in PollEvents(nPolls + 1) :
         /\ ev' = e
         /\ pollLog' = Append(pollLog, e)
         /\ CASE e.kind = "message" ->
                   /\ polled' = Append(polled, e.id)
                   /\ pc' = "send"
                   /\ ret' = ret
              [] e.kind = "error" ->
                   /\ pc' = "defer"
                   /\ ret' = e.err
                   /\ polled' = polled
              [] OTHER ->
                   /\ pc' = "loop"
                   /\ UNCHANGED <<ret, polled>>
    /\ UNCHANGED <<argVars, cancelled, observed, obsAt, chanVars, acquired,
                   sent, sendLog, deferred, resVars, queryVars, extVars>>

\* Mutant of DoSend: a full channel ends the bridge with an error.
DoSend_ErrOnFull ==
    /\ pc = "send"
    /\ sendLog' = Append(sendLog, [id |-> ev.id, len |-> Len(buf),
                                   waiting |-> recvWaiting])
    /\ IF CanSend
         THEN /\ sent' = Append(sent, ev.id)
              /\ IF recvWaiting
                   THEN /\ received' = Append(received, ev.id)
                        /\ recvWaiting' = FALSE
                        /\ buf' = buf
                   ELSE /\ buf' = Append(buf, ev.id)
                        /\ UNCHANGED <<received, recvWaiting>>
              /\ pc' = "loop"
              /\ ret' = ret
         ELSE /\ UNCHANGED <<sent, buf, received, recvWaiting>>
              /\ pc' = "defer"
              /\ ret' = "chan message full"
    /\ UNCHANGED <<argVars, cancelled, observed, obsAt, chClosed, calls,
                   acquired, nPolls, ev, polled, pollLog, deferred,
                   resVars, queryVars, extVars>>

\* options.go:336-340: the non-blocking send of the polled message.
DoSend ==
    /\ pc = "send"
    /\ sendLog' = Append(sendLog, [id |-> ev.id, len |-> Len(buf),
                                   waiting |-> recvWaiting])
    /\ IF CanSend
         THEN /\ sent' = Append(sent, ev.id)
              /\ IF recvWaiting
                   THEN /\ received' = Append(received, ev.id)
                        /\ recvWaiting' = FALSE
                        /\ buf' = buf
                   ELSE /\ buf' = Append(buf, ev.id)
                        /\ UNCHANGED <<received, recvWaiting>>
         ELSE UNCHANGED <<sent, buf, received, recvWaiting>>
    /\ pc' = "loop"
    /\ UNCHANGED <<argVars, cancelled, observed, obsAt, chClosed, calls,
                   acquired, nPolls, ev, polled, pollLog, ret, deferred,
                   resVars, queryVars, extVars>>

\* Mutant of DoUnsubscribe: a successful Unsubscribe returns without closing
\* the channel.
DoUnsubscribe_SkipClose ==
    /\ pc = "unsub"
    /\ calls' = Append(calls, "Unsubscribe")
    /\ \E r \in {"ok"} \cup UnsubscribeErrors :
         /\ unsubRes' = r
         /\ IF r = "ok"
              THEN pc' = "retnil" /\ ret' = ret
              ELSE pc' = "defer" /\ ret' = r
    /\ UNCHANGED <<argVars, cancelled, observed, obsAt, chanVars, acquired,
                   histVars, deferred, subscribed, queryVars, extVars>>

\* Mutant of DoUnsubscribe: the result of Unsubscribe is ignored.
DoUnsubscribe_IgnoreErr ==
    /\ pc = "unsub"
    /\ calls' = Append(calls, "Unsubscribe")
    /\ \E r \in {"ok"} \cup UnsubscribeErrors :
         /\ unsubRes' = r
         /\ pc' = "close"
         /\ ret' = ret
    /\ UNCHANGED <<argVars, cancelled, observed, obsAt, chanVars, acquired,
                   histVars, deferred, subscribed, queryVars, extVars>>

\* options.go:323-326: tsdbCons.Unsubscribe() after the cancellation was seen.
DoUnsubscribe ==
    /\ pc = "unsub"
    /\ calls' = Append(calls, "Unsubscribe")
    /\ \E r \in {"ok"} \cup UnsubscribeErrors :
         /\ unsubRes' = r
         /\ IF r = "ok"
              THEN pc' = "close" /\ ret' = ret
              ELSE pc' = "defer" /\ ret' = r
    /\ UNCHANGED <<argVars, cancelled, observed, obsAt, chanVars, acquired,
                   histVars, deferred, subscribed, queryVars, extVars>>

\* options.go:328: close(chMessage); a blocked receiver is released.
CloseChan ==
    /\ pc = "close"
    /\ chClosed' = TRUE
    /\ recvWaiting' = FALSE
    /\ pc' = "retnil"
    /\ UNCHANGED <<argVars, cancelled, observed, obsAt, buf, received, calls,
                   acquired, histVars, ret, deferred, resVars, queryVars, extVars>>

\* options.go:331: return nil.
ReturnNil ==
    /\ pc = "retnil"
    /\ ret' = "nil"
    /\ pc' = "defer"
    /\ UNCHANGED <<argVars, cancelled, observed, obsAt, chanVars, calls,
                   acquired, histVars, deferred, resVars, queryVars, extVars>>

\* options.go:311,317: the deferred calls run last-in first-out on every
\* return taken after the defer statement; their results are discarded.
RunDefer ==
    /\ pc = "defer"
    /\ IF deferred = <<>>
         THEN pc' = "returned" /\ UNCHANGED <<calls, deferred>>
         ELSE /\ calls' = Append(calls, Head(deferred))
              /\ deferred' = Tail(deferred)
              /\ pc' = pc
    /\ UNCHANGED <<argVars, cancelled, observed, obsAt, chanVars, acquired,
                   histVars, ret, resVars, queryVars, extVars>>

\* The caller cancels the context.
Cancel ==
    /\ ~cancelled
    /\ pc # "returned"
    /\ cancelled' = TRUE
    /\ UNCHANGED <<pc, argVars, observed, obsAt, chanVars, calls, acquired,
                   histVars, ret, deferred, resVars, queryVars, extVars>>

\* The reader of chMessage takes the oldest buffered message.
RecvTake ==
    /\ buf # <<>>
    /\ received' = Append(received, Head(buf))
    /\ buf' = Tail(buf)
    /\ UNCHANGED <<pc, argVars, cancelled, observed, obsAt, recvWaiting,
                   chClosed, calls, acquired, histVars, ret, deferred,
                   resVars, queryVars, extVars>>

\* The reader of chMessage blocks on the empty, open channel.
RecvWait ==
    /\ ~chNil
    /\ buf = <<>>
    /\ ~recvWaiting
    /\ ~chClosed
    /\ pc # "returned"
    /\ recvWaiting' = TRUE
    /\ UNCHANGED <<pc, argVars, cancelled, observed, obsAt, buf, received,
                   chClosed, calls, acquired, histVars, ret, deferred,
                   resVars, queryVars, extVars>>

\* ------------------------------------------------------------ query path
\* Text that the code parses is a sequence of one-character strings.
DigitChars == {"0", "1", "2", "3", "4", "5", "6", "7", "8", "9"}

DigitVal(c) ==
    CASE c = "0" -> 0 [] c = "1" -> 1 [] c = "2" -> 2 [] c = "3" -> 3
      [] c = "4" -> 4 [] c = "5" -> 5 [] c = "6" -> 6 [] c = "7" -> 7
      [] c = "8" -> 8 [] c = "9" -> 9

IsDigit(s, i) == i >= 1 /\ i <= Len(s) /\ s[i] \in DigitChars

AllDigits(s) == \A i \in 1..Len(s) : s[i] \in DigitChars

Drop(s, n) == SubSeq(s, n + 1, Len(s))

\* ---- values
\* JSON values on the wire.
JNum(lit) == [t |-> "number", s |-> lit]
JStr(str) == [t |-> "string", s |-> str]
JNull == [t |-> "null", s |-> <<>>]

\* Go values (interface{}) after decoding and after conversion.
GoNil == [t |-> "nil", s |-> <<>>]
GoString(str) == [t |-> "string", s |-> str]
GoNumber(lit) == [t |-> "json.Number", s |-> lit]
\* An int64: sign and decimal magnitude without leading zeros.
GoInt64(neg, mag) == [t |-> "int64", s |-> (IF neg THEN <<"-">> ELSE <<>>) \o mag]
\* The float64 nearest to a decimal literal without exponent.
GoFloat64(lit) == [t |-> "float64", s |-> lit]
\* The untyped constant 0 stored in an interface{}: an int.
GoInt0 == [t |-> "int", s |-> <<"0">>]

\* ---- errors
NilErr == [kind |-> "nil", status |-> 0, text |-> ""]
ErrNotExistsTable == [kind |-> "ErrNotExistsTable", status |-> 0, text |-> "table does not exist"]
ErrorsNew(text) == [kind |-> "errors.New", status |-> 0, text |-> text]
ErrDownstream(status, text) == [kind |-> "downstream", status |-> status, text |-> text]
ErrContentType(status, text) == [kind |-> "content-type", status |-> status, text |-> text]
ErrDecode(status, text) == [kind |-> "decode", status |-> status, text |-> text]
ErrStatus(status) == [kind |-> "status", status |-> status, text |-> "received status code from server"]
ErrColumnMeta == ErrorsNew("column meta data length no equal 3")
ErrNoClient == [kind |-> "no-client", status |-> 0, text |-> "not created http client for tdengine"]

\* ---- strconv.ParseInt(s, 10, 64), as json.Number.Int64 calls it
MaxInt64Digits == <<"9", "2", "2", "3", "3", "7", "2", "0", "3", "6", "8", "5", "4", "7", "7", "5", "8", "0", "7">>
MinInt64Magnitude == <<"9", "2", "2", "3", "3", "7", "2", "0", "3", "6", "8", "5", "4", "7", "7", "5", "8", "0", "8">>

\* d without its leading zeros (of zeros only, one stays).
StripZeros(d) ==
    IF \A i \in 1..Len(d) : d[i] = "0"
      THEN (IF d = <<>> THEN <<>> ELSE <<"0">>)
      ELSE SubSeq(d, CHOOSE i \in 1..Len(d) :
                       d[i] # "0" /\ \A j \in 1..(i - 1) : d[j] = "0",
                  Len(d))

\* a < b for two digit strings of the same length.
DigitsLess(a, b) ==
    \E i \in 1..Len(a) :
        /\ DigitVal(a[i]) < DigitVal(b[i])
        /\ \A j \in 1..(i - 1) : a[j] = b[j]

\* a > b for two digit strings without leading zeros.
MagGreater(a, b) ==
    \/ Len(a) > Len(b)
    \/ Len(a) = Len(b) /\ DigitsLess(b, a)

\* The length of the longest prefix of s whose characters all satisfy Ok.
PrefixLen(s, Ok(_)) ==
    CHOOSE n \in 0..Len(s) :
        /\ \A i \in 1..n : Ok(s[i])
        /\ n = Len(s) \/ ~Ok(s[n + 1])

\* Body of v: the value v is computed once for the places where Body uses it.
With(v, Body(_)) == Body(v)

\* The number of leading digits of s.
LeadingDigits(s) == PrefixLen(s, LAMBDA c : c \in DigitChars)

\* ---- uint64 and float64 arithmetic.  A natural number is a sequence of
\* limbs of 13 bits, the least significant first and the last not 0 (0 is
\* <<>>); a positive float64 is [m, e], the value m * 2^e with m a natural
\* number of at most 53 bits.
NatTrim(a) ==
    SubSeq(a, 1, CHOOSE n \in 0..Len(a) :
                     /\ n = 0 \/ a[n] # 0
                     /\ \A i \in (n + 1)..Len(a) : a[i] = 0)

\* Limb i of a.
NatLimb(a, i) == IF i >= 1 /\ i <= Len(a) THEN a[i] ELSE 0

\* a < b.
NatLess(a, b) ==
    \/ Len(a) < Len(b)
    \/ /\ Len(a) = Len(b)
       /\ \E i \in 1..Len(a) :
              a[i] < b[i] /\ \A j \in (i + 1)..Len(a) : a[j] = b[j]

\* a + b: limb i takes a carry when a limb below it overflows and the limbs
\* between them are all ones.
NatAdd(a, b) ==
    LET n == (IF Len(a) > Len(b) THEN Len(a) ELSE Len(b)) + 1
        s(i) == NatLimb(a, i) + NatLimb(b, i)
        carry(i) ==
            \E j \in 1..(i - 1) :
                s(j) >= 8192 /\ \A k \in (j + 1)..(i - 1) : s(k) = 8191
    IN  IF \A i \in 1..Len(b) : b[i] = 0 THEN NatTrim(a)
        ELSE NatTrim([i \in 1..n |-> (s(i) + (IF carry(i) THEN 1 ELSE 0)) % 8192])

\* a - b, for a >= b.
NatSub(a, b) ==
    LET d(i) == a[i] - NatLimb(b, i)
        borrow(i) ==
            \E j \in 1..(i - 1) :
                d(j) < 0 /\ \A k \in (j + 1)..(i - 1) : d(k) = 0
    IN  NatTrim([i \in 1..Len(a) |->
                    (d(i) - (IF borrow(i) THEN 1 ELSE 0) + 8192) % 8192])

\* a * m, for m up to 8192.
NatMulSmall(a, m) ==
    NatAdd([i \in 1..Len(a) |-> (a[i] * m) % 8192],
           [i \in 1..(Len(a) + 1) |-> IF i = 1 THEN 0 ELSE (a[i - 1] * m) \div 8192])

RECURSIVE NatMul(_, _)
NatMul(a, b) ==
    IF b = <<>> THEN <<>>
    ELSE
      LET hi == NatMul(a, Tail(b))
      IN  IF hi = <<>> THEN NatMulSmall(a, Head(b))
          ELSE NatAdd(NatMulSmall(a, Head(b)), <<0>> \o hi)

\* a << k.
NatShiftLeft(a, k) ==
    NatMulSmall([i \in 1..(k \div 13 + Len(a)) |-> NatLimb(a, i - k \div 13)],
                2^(k % 13))

\* a >> k.
NatShiftRight(a, k) ==
    LET q == k \div 13
        r == k % 13
    IN  NatTrim([i \in 1..(Len(a) - q) |->
                    NatLimb(a, i + q) \div 2^r
                    + (NatLimb(a, i + q + 1) % 2^r) * 2^(13 - r)])

\* Bit p of a, from bit 0.
NatBit(a, p) == (NatLimb(a, p \div 13 + 1) \div 2^(p % 13)) % 2 = 1

\* The number of bits of a.
BitLen(a) ==
    IF a = <<>> THEN 0
    ELSE 13 * (Len(a) - 1)
         + (CHOOSE b \in 1..13 : 2^(b - 1) <= a[Len(a)] /\ a[Len(a)] < 2^b)

\* The natural number of a digit string, three digits at a time.
RECURSIVE NatOfDigits(_)
NatOfDigits(d) ==
    LET n == Len(d)
        dig(p) == IF p >= 1 THEN DigitVal(d[p]) ELSE 0
        low == NatTrim(<<dig(n) + 10 * dig(n - 1) + 100 * dig(n - 2)>>)
        hi == NatOfDigits(SubSeq(d, 1, n - 3))
    IN  IF n <= 3 \/ hi = <<>> THEN low
        ELSE NatAdd(NatMulSmall(hi, 1000), low)

\* The largest q with q * y <= r, for r < y << 13 and the last limb of y at
\* least 4096: at most two below the quotient of the first two limbs of r by
\* the first of y.
QuoLimb(r, y) ==
    LET n == Len(y)
        est == (NatLimb(r, n + 1) * 8192 + NatLimb(r, n)) \div y[n]
        hat == IF est > 8191 THEN 8191 ELSE est
    IN  CHOOSE q \in {hat - 2, hat - 1, hat} :
            /\ q >= 0
            /\ ~NatLess(r, NatMulSmall(y, q))
            /\ NatLess(r, NatMulSmall(y, q + 1))

\* The quotient and the remainder of a by y, the last limb of y at least 4096.
RECURSIVE NatDivMod(_, _)
NatDivMod(a, y) ==
    IF Len(a) < Len(y) THEN [q |-> <<>>, r |-> a]
    ELSE
      With(NatDivMod(Tail(a), y), LAMBDA hi :
      With(IF hi.r = <<>> THEN NatTrim(<<Head(a)>>) ELSE <<Head(a)>> \o hi.r, LAMBDA r :
      With(QuoLimb(r, y), LAMBDA q :
          [q |-> IF hi.q = <<>> THEN NatTrim(<<q>>) ELSE <<q>> \o hi.q,
           r |-> NatSub(r, NatMulSmall(y, q))])))

\* The float64 nearest to n * 2^e (plus something below one unit of n when
\* sticky), ties to even.
Float64Round(n, e, sticky) ==
    LET k == BitLen(n) - 53
        q == NatShiftRight(n, k)
        up == /\ NatBit(n, k - 1)
              /\ \/ sticky
                 \/ \E p \in 0..(k - 2) : NatBit(n, p)
                 \/ NatBit(q, 0)
    IN  IF k <= 0 THEN [m |-> n, e |-> e]
        ELSE [m |-> IF up THEN NatAdd(q, <<1>>) ELSE q, e |-> e + k]

\* x * y on float64.
Float64Mul(x, y) ==
    IF x.m = <<>> \/ y.m = <<>> THEN [m |-> <<>>, e |-> 0]
    ELSE Float64Round(NatMul(x.m, y.m), x.e + y.e, FALSE)

\* x / y on float64: x is shifted to leave a quotient of 56 or 57 bits, which
\* is rounded; y is shifted to bring its last limb to 4096 or more.
Float64Quo(x, y) ==
    LET s == 56 + BitLen(y.m) - BitLen(x.m)
        n == 13 * Len(y.m) - BitLen(y.m)
    IN  With(NatDivMod(NatShiftLeft(x.m, s + n), NatShiftLeft(y.m, n)), LAMBDA d :
            Float64Round(d.q, x.e - y.e - s, d.r # <<>>))

\* The 64 bits of a below 1<<65 that a uint64 keeps.
Uint64(a) ==
    NatTrim([i \in 1..(IF Len(a) > 5 THEN 5 ELSE Len(a)) |->
                IF i = 5 THEN a[i] % 2^12 ELSE a[i]])

\* uint64(x): the integer part.
Float64ToUint64(x) ==
    IF x.e >= 0 THEN NatShiftLeft(x.m, x.e) ELSE NatShiftRight(x.m, -x.e)

\* 1<<64 - 1.
MaxUint64Digits ==
    <<"1", "8", "4", "4", "6", "7", "4", "4", "0", "7", "3", "7", "0", "9",
      "5", "5", "1", "6", "1", "5">>

\* The value and the error of ParseInt: a syntax error gives 0, a range error
\* the nearest bound.  ParseUint reads the digits from the left and stops with
\* a range error at the digit that carries the value over 1<<64 - 1, before
\* it sees the characters after it.
ParseInt64(str) ==
    LET neg == Len(str) > 0 /\ str[1] = "-"
        digits == IF Len(str) > 0 /\ str[1] \in {"+", "-"} THEN Tail(str) ELSE str
    IN  With(LeadingDigits(digits), LAMBDA lead :
        With(StripZeros(SubSeq(digits, 1, lead)), LAMBDA mag :
            IF MagGreater(mag, MaxUint64Digits)
              THEN [val |-> GoInt64(neg, IF neg THEN MinInt64Magnitude
                                         ELSE MaxInt64Digits),
                    err |-> "range"]
            ELSE IF digits = <<>> \/ lead < Len(digits)
              THEN [val |-> GoInt64(FALSE, <<"0">>), err |-> "syntax"]
            ELSE IF ~neg /\ MagGreater(mag, MaxInt64Digits)
              THEN [val |-> GoInt64(FALSE, MaxInt64Digits), err |-> "range"]
            ELSE IF neg /\ MagGreater(mag, MinInt64Magnitude)
              THEN [val |-> GoInt64(TRUE, MinInt64Magnitude), err |-> "range"]
            ELSE [val |-> GoInt64(neg /\ mag # <<"0">>, mag), err |-> "nil"]))

\* ---- strconv.ParseFloat(s, 64), as json.Number.Float64 calls it
UpperLetters ==
    <<"A", "B", "C", "D", "E", "F", "G", "H", "I", "J", "K", "L", "M",
      "N", "O", "P", "Q", "R", "S", "T", "U", "V", "W", "X", "Y", "Z">>

LowerLetters ==
    <<"a", "b", "c", "d", "e", "f", "g", "h", "i", "j", "k", "l", "m",
      "n", "o", "p", "q", "r", "s", "t", "u", "v", "w", "x", "y", "z">>

\* s with its ASCII upper case letters in lower case: strconv compares the
\* bytes of s with lower(c), which leaves every byte above ASCII unequal to a
\* letter.
LowerASCII(s) ==
    [i \in 1..Len(s) |->
        IF \E k \in 1..26 : UpperLetters[k] = s[i]
          THEN LowerLetters[CHOOSE k \in 1..26 : UpperLetters[k] = s[i]]
          ELSE s[i]]

HexChars ==
    <<"0", "1", "2", "3", "4", "5", "6", "7", "8", "9", "a", "b", "c", "d", "e", "f">>

\* The natural number of at most 16 hexadecimal digits: limb k is the 13 bits
\* from bit 13 * (k - 1), which lie in five digits.
NatOfHex(h) ==
    LET hv(p) == IF p < Len(h)
                   THEN (CHOOSE v \in 1..16 : HexChars[v] = h[Len(h) - p]) - 1
                   ELSE 0
        five(p) == hv(p) + 16 * hv(p + 1) + 256 * hv(p + 2) + 4096 * hv(p + 3)
                   + 65536 * hv(p + 4)
    IN  NatTrim([k \in 1..5 |->
                    (five((13 * (k - 1)) \div 4) \div 2^((13 * (k - 1)) % 4)) % 8192])

\* The decimal digits of 2^1024 - 2^970, halfway from the largest float64 to
\* 2^1024: a number rounds to infinity from there on.
Float64OverflowDigits ==
    <<"1", "7", "9", "7", "6", "9", "3", "1", "3", "4", "8", "6", "2", "3",
      "1", "5", "8", "0", "7", "9", "3", "7", "2", "8", "9", "7", "1", "4",
      "0", "5", "3", "0", "3", "4", "1", "5", "0", "7", "9", "9", "3", "4",
      "1", "3", "2", "7", "1", "0", "0", "3", "7", "8", "2", "6", "9", "3",
      "6", "1", "7", "3", "7", "7", "8", "9", "8", "0", "4", "4", "4", "9",
      "6", "8", "2", "9", "2", "7", "6", "4", "7", "5", "0", "9", "4", "6",
      "6", "4", "9", "0", "1", "7", "9", "7", "7", "5", "8", "7", "2", "0",
      "7", "0", "9", "6", "3", "3", "0", "2", "8", "6", "4", "1", "6", "6",
      "9", "2", "8", "8", "7", "9", "1", "0", "9", "4", "6", "5", "5", "5",
      "5", "4", "7", "8", "5", "1", "9", "4", "0", "4", "0", "2", "6", "3",
      "0", "6", "5", "7", "4", "8", "8", "6", "7", "1", "5", "0", "5", "8",
      "2", "0", "6", "8", "1", "9", "0", "8", "9", "0", "2", "0", "0", "0",
      "7", "0", "8", "3", "8", "3", "6", "7", "6", "2", "7", "3", "8", "5",
      "4", "8", "4", "5", "8", "1", "7", "7", "1", "1", "5", "3", "1", "7",
      "6", "4", "4", "7", "5", "7", "3", "0", "2", "7", "0", "0", "6", "9",
      "8", "5", "5", "5", "7", "1", "3", "6", "6", "9", "5", "9", "6", "2",
      "2", "8", "4", "2", "9", "1", "4", "8", "1", "9", "8", "6", "0", "8",
      "3", "4", "9", "3", "6", "4", "7", "5", "2", "9", "2", "7", "1", "9",
      "0", "7", "4", "1", "6", "8", "4", "4", "4", "3", "6", "5", "5", "1",
      "0", "7", "0", "4", "3", "4", "2", "7", "1", "1", "5", "5", "9", "6",
      "9", "9", "5", "0", "8", "0", "9", "3", "0", "4", "2", "8", "8", "0",
      "1", "7", "7", "9", "0", "4", "1", "7", "4", "4", "9", "7", "7", "9",
      "2">>

\* readFloat's scan of the mantissa of s, which is in lower case and has no
\* sign: digits and underscores with at most one '.'.  The position after it,
\* its digits and the number of them before the point.
ReadMantissa(s, hex) ==
    LET start == IF hex THEN 3 ELSE 1
        IsMant(c) == c \in DigitChars \/ (hex /\ c \in {"a", "b", "c", "d", "e", "f"})
        IsRun(c) == IsMant(c) \/ c = "_"
    IN  With(start + PrefixLen(Drop(s, start - 1), IsRun), LAMBDA dot :
        With(IF dot <= Len(s) /\ s[dot] = "."
               THEN dot + 1 + PrefixLen(Drop(s, dot), IsRun)
               ELSE dot, LAMBDA end :
            [end |-> end,
             digits |-> SelectSeq(SubSeq(s, start, end - 1), IsMant),
             intLen |-> Len(SelectSeq(SubSeq(s, start, dot - 1), IsMant))]))

\* readFloat's scan of the exponent of s at position from: whether there is
\* one, whether a digit starts it, its value and the position after it.  The
\* value is e = e*10 + digit while e < 10000: that of the first five digits
\* after the leading zeros.
ReadExponent(s, from, hex) ==
    LET sign == from + 1 <= Len(s) /\ s[from + 1] \in {"+", "-"}
        start == from + (IF sign THEN 2 ELSE 1)
    IN  IF from > Len(s) \/ s[from] # (IF hex THEN "p" ELSE "e")
          THEN [has |-> FALSE, ok |-> TRUE, exp |-> 0, end |-> from]
          ELSE
            With(PrefixLen(Drop(s, start - 1), LAMBDA c : c \in DigitChars \/ c = "_"),
                 LAMBDA run :
            With(StripZeros(SelectSeq(SubSeq(s, start, start + run - 1),
                                      LAMBDA c : c \in DigitChars)), LAMBDA d :
                LET ed(p) == IF p >= 1 /\ p <= Len(d) THEN DigitVal(d[p]) ELSE 0
                    k == IF Len(d) > 5 THEN 5 ELSE Len(d)
                    e == ed(k) + 10 * ed(k - 1) + 100 * ed(k - 2) + 1000 * ed(k - 3)
                         + 10000 * ed(k - 4)
                IN  [has |-> TRUE,
                     ok |-> start <= Len(s) /\ s[start] \in DigitChars,
                     exp |-> IF sign /\ s[from + 1] = "-" THEN -e ELSE e,
                     end |-> start + run]))

\* underscoreOK on the first n characters of s: an underscore follows a digit
\* or the base prefix and a digit follows it.
underscoreOK(s, hex, n) ==
    LET start == IF hex THEN 3 ELSE 1
        IsMant(c) == c \in DigitChars \/ (hex /\ c \in {"a", "b", "c", "d", "e", "f"})
    IN  \A i \in 1..n :
            s[i] = "_" =>
                /\ (i = start /\ hex) \/ (i > start /\ IsMant(s[i - 1]))
                /\ i + 1 <= n /\ IsMant(s[i + 1])

\* readFloat on s, in lower case and without sign: whether all of s is a
\* number, whether it is hexadecimal, its digits from the first that is not 0,
\* the place of the point after the first of them and the exponent.
readFloat(s) ==
    LET hex == Len(s) >= 3 /\ s[1] = "0" /\ s[2] = "x"
    IN  With(ReadMantissa(s, hex), LAMBDA m :
        With(ReadExponent(s, m.end, hex), LAMBDA x :
        With(PrefixLen(m.digits, LAMBDA c : c = "0"), LAMBDA zeros :
            [ok |-> /\ m.digits # <<>>
                    /\ x.ok
                    /\ hex => x.has
                    /\ underscoreOK(s, hex, x.end - 1)
                    /\ x.end = Len(s) + 1,
             hex |-> hex,
             sig |-> Drop(m.digits, zeros),
             point |-> m.intLen - zeros,
             exp |-> x.exp])))

\* Whether the number r of readFloat rounds to an infinity.  A decimal number
\* is 0.sig * 10^dp; of a hexadecimal number the first 16 digits are the
\* mantissa, and a later digit that is not 0 makes it inexact.
Float64Overflows(r) ==
    LET dp == r.point + r.exp
        pad(i) == IF i <= Len(r.sig) THEN r.sig[i] ELSE "0"
        below == \E i \in 1..Len(Float64OverflowDigits) :
                     /\ DigitVal(pad(i)) < DigitVal(Float64OverflowDigits[i])
                     /\ \A j \in 1..(i - 1) : pad(j) = Float64OverflowDigits[j]
        m16 == SubSeq(r.sig, 1, IF Len(r.sig) > 16 THEN 16 ELSE Len(r.sig))
    IN  IF r.hex
          THEN With(Float64Round(NatOfHex(m16), 4 * r.point + r.exp - 4 * Len(m16),
                                 \E i \in 17..Len(r.sig) : r.sig[i] # "0"),
                    LAMBDA f : BitLen(f.m) + f.e > 1024)
          ELSE dp > 309 \/ (dp = 309 /\ ~below)

\* The value and the error of ParseFloat: a syntax error gives 0, a range
\* error an infinity.  The number is a decimal or a hexadecimal mantissa with
\* an exponent, with underscores between its digits, or an infinity or NaN.
ParseFloat64(str) ==
    LET signed == Len(str) > 0 /\ str[1] \in {"+", "-"}
        inf == GoFloat64(<<IF signed /\ str[1] = "-" THEN "-" ELSE "+", "I", "n", "f">>)
    IN  With(LowerASCII(IF signed THEN Tail(str) ELSE str), LAMBDA s :
            IF s \in {<<"i", "n", "f">>, <<"i", "n", "f", "i", "n", "i", "t", "y">>}
              THEN [val |-> inf, err |-> "nil"]
            ELSE IF ~signed /\ s = <<"n", "a", "n">>
              THEN [val |-> GoFloat64(<<"N", "a", "N">>), err |-> "nil"]
            ELSE
              With(readFloat(s), LAMBDA r :
                  IF ~r.ok THEN [val |-> GoFloat64(<<"0">>), err |-> "syntax"]
                  ELSE IF r.sig # <<>> /\ Float64Overflows(r)
                    THEN [val |-> inf, err |-> "range"]
                  ELSE [val |-> GoFloat64(str), err |-> "nil"]))

\* The decimal digits of a natural number.
RECURSIVE NatDigits(_)
NatDigits(n) ==
    LET c == CHOOSE d \in DigitChars : DigitVal(d) = n % 10
    IN  IF n < 10 THEN <<c>> ELSE Append(NatDigits(n \div 10), c)

IntToInt64(n) == IF n < 0 THEN GoInt64(TRUE, NatDigits(-n)) ELSE GoInt64(FALSE, NatDigits(n))

\* ---- time.Parse(tsdbTimeStampFormat, s) and Time.Unix
Num2(s, i) == 10 * DigitVal(s[i]) + DigitVal(s[i + 1])
Num4(s, i) == 100 * Num2(s, i) + Num2(s, i + 2)

IsLeap(y) == y % 4 = 0 /\ (y % 100 # 0 \/ y % 400 = 0)

DaysIn(m, y) ==
    IF m = 2 THEN (IF IsLeap(y) THEN 29 ELSE 28)
    ELSE IF m \in {4, 6, 9, 11} THEN 30 ELSE 31

\* Days from 1970-01-01 to y-m-d in the proleptic Gregorian calendar.
DaysFromCivil(y, m, d) ==
    LET yy == IF m <= 2 THEN y - 1 ELSE y
        era == yy \div 400
        yoe == yy - era * 400
        mp == IF m > 2 THEN m - 3 ELSE m + 9
        doy == (153 * mp + 2) \div 5 + d - 1
        doe == yoe * 365 + yoe \div 4 - yoe \div 100 + doy
    IN  era * 146097 + doe - 719468

\* The number of characters of a fractional second at the head of s: a period
\* or comma followed by one or more digits; 0 when there is none.
RECURSIVE DigitRun(_, _)
DigitRun(s, i) == IF IsDigit(s, i) THEN 1 + DigitRun(s, i + 1) ELSE 0

FracLen(s) ==
    IF Len(s) >= 2 /\ s[1] \in {".", ","} /\ IsDigit(s, 2)
      THEN 1 + DigitRun(s, 2)
      ELSE 0

\* Layout "2006-01-02T15:04:05.999999999Z": four-digit year, two-digit month
\* and day, an hour of one or two digits, two-digit minute and second, an
\* optional fraction, the letter Z and nothing after it; the result is in UTC.
\* Literals of the model have at most nine fraction digits and years whose
\* Unix seconds fit TLC's integers (1902..2037).
ParseTimestamp(s) ==
    LET fail == [ok |-> FALSE, unix |-> 0]
    IN  IF ~(Len(s) >= 11 /\ IsDigit(s, 1) /\ IsDigit(s, 2) /\ IsDigit(s, 3)
             /\ IsDigit(s, 4) /\ s[5] = "-" /\ IsDigit(s, 6) /\ IsDigit(s, 7)
             /\ s[8] = "-" /\ IsDigit(s, 9) /\ IsDigit(s, 10) /\ s[11] = "T")
          THEN fail
        ELSE
          LET year == Num4(s, 1)
              month == Num2(s, 6)
              day == Num2(s, 9)
              r1 == Drop(s, 11)
              hlen == IF IsDigit(r1, 2) THEN 2 ELSE 1
          IN  IF month < 1 \/ month > 12 \/ ~IsDigit(r1, 1) THEN fail
              ELSE
                LET hour == IF hlen = 2 THEN Num2(r1, 1) ELSE DigitVal(r1[1])
                    r2 == Drop(r1, hlen)
                IN  IF hour >= 24
                       \/ ~(Len(r2) >= 6 /\ r2[1] = ":" /\ IsDigit(r2, 2)
                            /\ IsDigit(r2, 3) /\ r2[4] = ":" /\ IsDigit(r2, 5)
                            /\ IsDigit(r2, 6))
                      THEN fail
                    ELSE
                      LET min == Num2(r2, 2)
                          sec == Num2(r2, 5)
                          r3 == Drop(r2, 6)
                          r4 == Drop(r3, FracLen(r3))
                      IN  IF min >= 60 \/ sec >= 60 \/ r4 # <<"Z">>
                               \/ day < 1 \/ day > DaysIn(month, year)
                            THEN fail
                          ELSE [ok |-> TRUE,
                                unix |-> DaysFromCivil(year, month, day) * 86400
                                         + hour * 3600 + min * 60 + sec]


\* ---- column types of the wire format (options.go:223-237)
T_BIGINT == <<"B", "I", "G", "I", "N", "T">>
T_INT == <<"I", "N", "T">>
T_TINYINT == <<"T", "I", "N", "Y", "I", "N", "T">>
T_SMALLINT == <<"S", "M", "A", "L", "L", "I", "N", "T">>
T_TINYINT_UNSIGNED == <<"T", "I", "N", "Y", "I", "N", "T", " ", "U", "N", "S", "I", "G", "N", "E", "D">>
T_SMALLINT_UNSIGNED == <<"S", "M", "A", "L", "L", "I", "N", "T", " ", "U", "N", "S", "I", "G", "N", "E", "D">>
T_INT_UNSIGNED == <<"I", "N", "T", " ", "U", "N", "S", "I", "G", "N", "E", "D">>
T_BIGINT_UNSIGNED == <<"B", "I", "G", "I", "N", "T", " ", "U", "N", "S", "I", "G", "N", "E", "D">>
T_FLOAT == <<"F", "L", "O", "A", "T">>
T_DOUBLE == <<"D", "O", "U", "B", "L", "E">>
T_TIMESTAMP == <<"T", "I", "M", "E", "S", "T", "A", "M", "P">>
T_NCHAR == <<"N", "C", "H", "A", "R">>

IntTypes == {T_BIGINT, T_INT, T_TINYINT, T_SMALLINT, T_TINYINT_UNSIGNED,
             T_SMALLINT_UNSIGNED, T_INT_UNSIGNED, T_BIGINT_UNSIGNED}
FloatTypes == {T_FLOAT, T_DOUBLE}
Placeholder == <<"_">>

\* ---- Response and its decoding (taosclient.go:423-429, 461-464)
ZeroResponse == [Code |-> 0, Desc |-> "", ColumnMeta |-> <<>>, Data |-> <<>>]

\* encoding/json with UseNumber: a JSON number decodes to a json.Number that
\* keeps its text, a string to a string, null to nil.
DecodeValue(v) ==
    CASE v.t = "number" -> GoNumber(v.s)
      [] v.t = "string" -> GoString(v.s)
      [] OTHER -> GoNil

DecodeRow(r) == [i \in 1..Len(r) |-> DecodeValue(r[i])]

DecodeTable(t) == [i \in 1..Len(t) |-> DecodeRow(t[i])]

\* dec.Decode(&response): an empty body is io.EOF, a body cut inside the value
\* io.ErrUnexpectedEOF, other malformed text a syntax error.
DecodeBody(body) ==
    CASE body.kind = "empty" -> [resp |-> ZeroResponse, err |-> "EOF"]
      [] body.kind = "truncated" -> [resp |-> ZeroResponse, err |-> "unexpected EOF"]
      [] body.kind = "malformed" ->
            [resp |-> ZeroResponse, err |-> "invalid character '<' looking for beginning of value"]
      [] OTHER ->
            [resp |-> [Code |-> body.payload.code,
                       Desc |-> body.payload.desc,
                       ColumnMeta |-> DecodeTable(body.payload.column_meta),
                       Data |-> DecodeTable(body.payload.data)],
             err |-> ""]

\* Mutant of ResponseError: the table-not-exists codes are not singled out.
ResponseError_NoSentinel(r) ==
    IF r.Code # 0 \/ r.Desc # "" THEN ErrorsNew(r.Desc) ELSE NilErr

\* taosclient.go:432-443.
ResponseError(r) ==
    IF r.Code # 0 \/ r.Desc # ""
      THEN IF r.Code = CodeTableNotExists \/ r.Code = CodeStreamNotExists
             THEN ErrNotExistsTable
             ELSE ErrorsNew(r.Desc)
      ELSE NilErr

\* ---- mime.ParseMediaType of the Content-Type header.  A character that
\* cannot be written in a string is the name of its code point: "U+" and its
\* four to six hexadecimal digits.
RuneName(cp) ==
    LET hex == <<"0", "1", "2", "3", "4", "5", "6", "7", "8", "9",
                 "A", "B", "C", "D", "E", "F">>
        d(k) == hex[((cp \div k) % 16) + 1]
    IN  IF cp >= 97 /\ cp <= 122 THEN LowerLetters[cp - 96]
        ELSE "U+" \o (IF cp >= 1048576 THEN d(1048576) ELSE "")
                  \o (IF cp >= 65536 THEN d(65536) ELSE "")
                  \o d(4096) \o d(256) \o d(16) \o d(1)

\* unicode.CaseRanges (Unicode 15.0) above ASCII, as unicode.ToLower reads it:
\* <<lo, hi, step, delta>> gives the letters lo, lo + step, .. hi their lower
\* case delta code points further.
CaseRanges ==
    <<<<\h00C0, \h00D6, 1, 32>>, <<\h00D8, \h00DE, 1, 32>>, <<\h0100, \h012E, 2, 1>>,
      <<\h0130, \h0130, 1, -199>>, <<\h0132, \h0136, 2, 1>>, <<\h0139, \h0147, 2, 1>>,
      <<\h014A, \h0176, 2, 1>>, <<\h0178, \h0178, 1, -121>>, <<\h0179, \h017D, 2, 1>>,
      <<\h0181, \h0181, 1, 210>>, <<\h0182, \h0184, 2, 1>>, <<\h0186, \h0186, 1, 206>>,
      <<\h0187, \h0187, 1, 1>>, <<\h0189, \h018A, 1, 205>>, <<\h018B, \h018B, 1, 1>>,
      <<\h018E, \h018E, 1, 79>>, <<\h018F, \h018F, 1, 202>>, <<\h0190, \h0190, 1, 203>>,
      <<\h0191, \h0191, 1, 1>>, <<\h0193, \h0193, 1, 205>>, <<\h0194, \h0194, 1, 207>>,
      <<\h0196, \h0196, 1, 211>>, <<\h0197, \h0197, 1, 209>>, <<\h0198, \h0198, 1, 1>>,
      <<\h019C, \h019C, 1, 211>>, <<\h019D, \h019D, 1, 213>>, <<\h019F, \h019F, 1, 214>>,
      <<\h01A0, \h01A4, 2, 1>>, <<\h01A6, \h01A6, 1, 218>>, <<\h01A7, \h01A7, 1, 1>>,
      <<\h01A9, \h01A9, 1, 218>>, <<\h01AC, \h01AC, 1, 1>>, <<\h01AE, \h01AE, 1, 218>>,
      <<\h01AF, \h01AF, 1, 1>>, <<\h01B1, \h01B2, 1, 217>>, <<\h01B3, \h01B5, 2, 1>>,
      <<\h01B7, \h01B7, 1, 219>>, <<\h01B8, \h01B8, 1, 1>>, <<\h01BC, \h01BC, 1, 1>>,
      <<\h01C4, \h01C4, 1, 2>>, <<\h01C5, \h01C5, 1, 1>>, <<\h01C7, \h01C7, 1, 2>>,
      <<\h01C8, \h01C8, 1, 1>>, <<\h01CA, \h01CA, 1, 2>>, <<\h01CB, \h01DB, 2, 1>>,
      <<\h01DE, \h01EE, 2, 1>>, <<\h01F1, \h01F1, 1, 2>>, <<\h01F2, \h01F4, 2, 1>>,
      <<\h01F6, \h01F6, 1, -97>>, <<\h01F7, \h01F7, 1, -56>>, <<\h01F8, \h021E, 2, 1>>,
      <<\h0220, \h0220, 1, -130>>, <<\h0222, \h0232, 2, 1>>, <<\h023A, \h023A, 1, 10795>>,
      <<\h023B, \h023B, 1, 1>>, <<\h023D, \h023D, 1, -163>>, <<\h023E, \h023E, 1, 10792>>,
      <<\h0241, \h0241, 1, 1>>, <<\h0243, \h0243, 1, -195>>, <<\h0244, \h0244, 1, 69>>,
      <<\h0245, \h0245, 1, 71>>, <<\h0246, \h024E, 2, 1>>, <<\h0370, \h0372, 2, 1>>,
      <<\h0376, \h0376, 1, 1>>, <<\h037F, \h037F, 1, 116>>, <<\h0386, \h0386, 1, 38>>,
      <<\h0388, \h038A, 1, 37>>, <<\h038C, \h038C, 1, 64>>, <<\h038E, \h038F, 1, 63>>,
      <<\h0391, \h03A1, 1, 32>>, <<\h03A3, \h03AB, 1, 32>>, <<\h03CF, \h03CF, 1, 8>>,
      <<\h03D8, \h03EE, 2, 1>>, <<\h03F4, \h03F4, 1, -60>>, <<\h03F7, \h03F7, 1, 1>>,
      <<\h03F9, \h03F9, 1, -7>>, <<\h03FA, \h03FA, 1, 1>>, <<\h03FD, \h03FF, 1, -130>>,
      <<\h0400, \h040F, 1, 80>>, <<\h0410, \h042F, 1, 32>>, <<\h0460, \h0480, 2, 1>>,
      <<\h048A, \h04BE, 2, 1>>, <<\h04C0, \h04C0, 1, 15>>, <<\h04C1, \h04CD, 2, 1>>,
      <<\h04D0, \h052E, 2, 1>>, <<\h0531, \h0556, 1, 48>>, <<\h10A0, \h10C5, 1, 7264>>,
      <<\h10C7, \h10C7, 1, 7264>>, <<\h10CD, \h10CD, 1, 7264>>, <<\h13A0, \h13EF, 1, 38864>>,
      <<\h13F0, \h13F5, 1, 8>>, <<\h1C90, \h1CBA, 1, -3008>>, <<\h1CBD, \h1CBF, 1, -3008>>,
      <<\h1E00, \h1E94, 2, 1>>, <<\h1E9E, \h1E9E, 1, -7615>>, <<\h1EA0, \h1EFE, 2, 1>>,
      <<\h1F08, \h1F0F, 1, -8>>, <<\h1F18, \h1F1D, 1, -8>>, <<\h1F28, \h1F2F, 1, -8>>,
      <<\h1F38, \h1F3F, 1, -8>>, <<\h1F48, \h1F4D, 1, -8>>, <<\h1F59, \h1F5F, 2, -8>>,
      <<\h1F68, \h1F6F, 1, -8>>, <<\h1F88, \h1F8F, 1, -8>>, <<\h1F98, \h1F9F, 1, -8>>,
      <<\h1FA8, \h1FAF, 1, -8>>, <<\h1FB8, \h1FB9, 1, -8>>, <<\h1FBA, \h1FBB, 1, -74>>,
      <<\h1FBC, \h1FBC, 1, -9>>, <<\h1FC8, \h1FCB, 1, -86>>, <<\h1FCC, \h1FCC, 1, -9>>,
      <<\h1FD8, \h1FD9, 1, -8>>, <<\h1FDA, \h1FDB, 1, -100>>, <<\h1FE8, \h1FE9, 1, -8>>,
      <<\h1FEA, \h1FEB, 1, -112>>, <<\h1FEC, \h1FEC, 1, -7>>, <<\h1FF8, \h1FF9, 1, -128>>,
      <<\h1FFA, \h1FFB, 1, -126>>, <<\h1FFC, \h1FFC, 1, -9>>, <<\h2126, \h2126, 1, -7517>>,
      <<\h212A, \h212A, 1, -8383>>, <<\h212B, \h212B, 1, -8262>>, <<\h2132, \h2132, 1, 28>>,
      <<\h2160, \h216F, 1, 16>>, <<\h2183, \h2183, 1, 1>>, <<\h24B6, \h24CF, 1, 26>>,
      <<\h2C00, \h2C2F, 1, 48>>, <<\h2C60, \h2C60, 1, 1>>, <<\h2C62, \h2C62, 1, -10743>>,
      <<\h2C63, \h2C63, 1, -3814>>, <<\h2C64, \h2C64, 1, -10727>>, <<\h2C67, \h2C6B, 2, 1>>,
      <<\h2C6D, \h2C6D, 1, -10780>>, <<\h2C6E, \h2C6E, 1, -10749>>,
      <<\h2C6F, \h2C6F, 1, -10783>>, <<\h2C70, \h2C70, 1, -10782>>, <<\h2C72, \h2C72, 1, 1>>,
      <<\h2C75, \h2C75, 1, 1>>, <<\h2C7E, \h2C7F, 1, -10815>>, <<\h2C80, \h2CE2, 2, 1>>,
      <<\h2CEB, \h2CED, 2, 1>>, <<\h2CF2, \h2CF2, 1, 1>>, <<\hA640, \hA66C, 2, 1>>,
      <<\hA680, \hA69A, 2, 1>>, <<\hA722, \hA72E, 2, 1>>, <<\hA732, \hA76E, 2, 1>>,
      <<\hA779, \hA77B, 2, 1>>, <<\hA77D, \hA77D, 1, -35332>>, <<\hA77E, \hA786, 2, 1>>,
      <<\hA78B, \hA78B, 1, 1>>, <<\hA78D, \hA78D, 1, -42280>>, <<\hA790, \hA792, 2, 1>>,
      <<\hA796, \hA7A8, 2, 1>>, <<\hA7AA, \hA7AA, 1, -42308>>, <<\hA7AB, \hA7AB, 1, -42319>>,
      <<\hA7AC, \hA7AC, 1, -42315>>, <<\hA7AD, \hA7AD, 1, -42305>>,
      <<\hA7AE, \hA7AE, 1, -42308>>, <<\hA7B0, \hA7B0, 1, -42258>>,
      <<\hA7B1, \hA7B1, 1, -42282>>, <<\hA7B2, \hA7B2, 1, -42261>>, <<\hA7B3, \hA7B3, 1, 928>>,
      <<\hA7B4, \hA7C2, 2, 1>>, <<\hA7C4, \hA7C4, 1, -48>>, <<\hA7C5, \hA7C5, 1, -42307>>,
      <<\hA7C6, \hA7C6, 1, -35384>>, <<\hA7C7, \hA7C9, 2, 1>>, <<\hA7D0, \hA7D0, 1, 1>>,
      <<\hA7D6, \hA7D8, 2, 1>>, <<\hA7F5, \hA7F5, 1, 1>>, <<\hFF21, \hFF3A, 1, 32>>,
      <<\h10400, \h10427, 1, 40>>, <<\h104B0, \h104D3, 1, 40>>, <<\h10570, \h1057A, 1, 39>>,
      <<\h1057C, \h1058A, 1, 39>>, <<\h1058C, \h10592, 1, 39>>, <<\h10594, \h10595, 1, 39>>,
      <<\h10C80, \h10CB2, 1, 64>>, <<\h118A0, \h118BF, 1, 32>>, <<\h16E40, \h16E5F, 1, 32>>,
      <<\h1E900, \h1E921, 1, 34>>>>

\* unicode.ToLower of the letters of CaseRanges, by name.
LowerCase ==
    LET cps(r) == {cp \in r[1]..r[2] : (cp - r[1]) % r[3] = 0}
        pairs == UNION {{<<RuneName(cp), RuneName(cp + CaseRanges[k][4])>> :
                            cp \in cps(CaseRanges[k])} : k \in DOMAIN CaseRanges}
    IN  [c \in {p[1] : p \in pairs} |-> (CHOOSE p \in pairs : p[1] = c)[2]]

\* strings.ToLower: every letter of s in lower case.
ToLower(s) ==
    [i \in 1..Len(s) |->
        IF \E k \in 1..26 : UpperLetters[k] = s[i]
          THEN LowerLetters[CHOOSE k \in 1..26 : UpperLetters[k] = s[i]]
        ELSE IF s[i] \in DOMAIN LowerCase THEN LowerCase[s[i]]
        ELSE s[i]]

\* unicode.IsSpace: the white space of Latin-1 and of the White_Space table.
SpaceChars ==
    {"\t", "\n", "U+000B", "\f", "\r", " ", "U+0085", "U+00A0", "U+1680",
     "U+2000", "U+2001", "U+2002", "U+2003", "U+2004", "U+2005", "U+2006",
     "U+2007", "U+2008", "U+2009", "U+200A", "U+2028", "U+2029", "U+202F",
     "U+205F", "U+3000"}

\* isTSpecial.
TSpecials ==
    {"(", ")", "<", ">", "@", ",", ";", ":", "\\", "\"", "/", "[", "]", "?", "="}

\* isTokenChar: a printable ASCII character that is neither a space nor
\* special (U+0060 is the grave accent).
IsTokenChar(c) ==
    \/ c \in DigitChars
    \/ \E k \in 1..26 : c = UpperLetters[k] \/ c = LowerLetters[k]
    \/ c \in {"!", "#", "$", "%", "&", "'", "*", "+", "-", ".", "^", "_",
              "U+0060", "{", "|", "}", "~"}

\* strings.TrimLeftFunc(s, unicode.IsSpace).
TrimLeft(s) == Drop(s, PrefixLen(s, LAMBDA c : c \in SpaceChars))

\* strings.TrimSpace.
TrimSpace(s) ==
    LET t == TrimLeft(s)
    IN  SubSeq(t, 1, CHOOSE n \in 0..Len(t) :
                        /\ n = 0 \/ t[n] \notin SpaceChars
                        /\ \A i \in (n + 1)..Len(t) : t[i] \in SpaceChars)

\* consumeValue: a token, or a quoted string up to its closing quote.  In a
\* quoted string a backslash escapes a special character after it; position i
\* is escaped when it is special and an odd number of backslashes runs up to
\* it.  A line break ends the scan without a value.
consumeValue(v) ==
    LET n == PrefixLen(v, IsTokenChar)
        back(i) == i - 1 - (CHOOSE j \in 1..(i - 1) :
                                /\ j = 1 \/ v[j] # "\\"
                                /\ \A k \in (j + 1)..(i - 1) : v[k] = "\\")
        escaped(i) == v[i] \in TSpecials /\ back(i) % 2 = 1
        stops == {i \in 2..Len(v) : ~escaped(i) /\ v[i] \in {"\"", "\r", "\n"}}
        stop == CHOOSE i \in stops : \A j \in stops : i <= j
        kept == SelectSeq([i \in 1..(stop - 2) |-> i + 1],
                          LAMBDA i : ~(v[i] = "\\" /\ ~escaped(i) /\ escaped(i + 1)))
    IN  IF v = <<>> \/ v[1] # "\""
          THEN [value |-> SubSeq(v, 1, n), rest |-> Drop(v, n)]
        ELSE IF stops = {} \/ v[stop] # "\""
          THEN [value |-> <<>>, rest |-> v]
        ELSE [value |-> [i \in 1..Len(kept) |-> v[kept[i]]], rest |-> Drop(v, stop)]

\* consumeMediaParam: the name, in lower case, and the value of the parameter
\* at the head of v and what follows it; no name when v does not start with
\* one.
consumeMediaParam(v) ==
    With(TrimLeft(v), LAMBDA r0 :
        IF r0 = <<>> \/ Head(r0) # ";" THEN [param |-> <<>>, value |-> <<>>, rest |-> v]
        ELSE
          With(TrimLeft(Tail(r0)), LAMBDA r1 :
          With(PrefixLen(r1, IsTokenChar), LAMBDA n :
          With(TrimLeft(Drop(r1, n)), LAMBDA r2 :
              IF n = 0 \/ r2 = <<>> \/ Head(r2) # "="
                THEN [param |-> <<>>, value |-> <<>>, rest |-> v]
              ELSE
                With(TrimLeft(Tail(r2)), LAMBDA r3 :
                With(consumeValue(r3), LAMBDA val :
                    IF val.value = <<>> /\ val.rest = r3
                      THEN [param |-> <<>>, value |-> <<>>, rest |-> v]
                      ELSE [param |-> ToLower(SubSeq(r1, 1, n)), value |-> val.value,
                            rest |-> val.rest]))))))

\* The loop over the parameters v: whether it ends on a name that came before
\* (in params) with another value.  It ends without that at the end of v and
\* at what is not a parameter.
RECURSIVE DuplicateParam(_, _)
DuplicateParam(v, params) ==
    With(TrimLeft(v), LAMBDA rest :
        IF rest = <<>> THEN FALSE
        ELSE
          With(consumeMediaParam(rest), LAMBDA p :
              IF p.param = <<>> THEN FALSE
              ELSE IF \E q \in params : q.param = p.param /\ q.value # p.value THEN TRUE
              ELSE DuplicateParam(p.rest,
                                  params \cup {[param |-> p.param, value |-> p.value]})))

\* checkMediaTypeDisposition: a token, or two with a slash between them.
checkMediaTypeDisposition(t) ==
    LET n == PrefixLen(t, IsTokenChar)
        rest == Drop(t, n)
    IN  /\ n > 0
        /\ \/ rest = <<>>
           \/ /\ Head(rest) = "/"
              /\ Len(rest) > 1
              /\ PrefixLen(Tail(rest), IsTokenChar) = Len(rest) - 1

\* The media type ParseMediaType returns: what stands before the first ';', in
\* lower case and without the spaces around it; nothing when that is not a
\* media type or a parameter is repeated with another value.
MediaType(h) ==
    With(PrefixLen(h, LAMBDA c : c # ";"), LAMBDA n :
    With(TrimSpace(ToLower(SubSeq(h, 1, n))), LAMBDA mediatype :
        IF checkMediaTypeDisposition(mediatype) /\ ~DuplicateParam(Drop(h, n), {})
          THEN mediatype
          ELSE <<>>))

ApplicationJson ==
    <<"a", "p", "p", "l", "i", "c", "a", "t", "i", "o", "n", "/", "j", "s", "o", "n">>

\* taosclient.go:483-506.
checkResponse(h) ==
    IF h.status >= StatusInternalServerError
      THEN IF h.body.kind = "empty"
             THEN ErrDownstream(h.status, "")
             ELSE ErrDownstream(h.status, h.body.kind)
    ELSE IF MediaType(h.ctype) # ApplicationJson
      THEN IF h.body.kind = "empty"
             THEN ErrContentType(h.status, "")
             ELSE ErrContentType(h.status, h.body.kind)
    ELSE NilErr

\* Mutant of TolerateEOF: the end of input is tolerated at every status.
TolerateEOF_Always(decErr, status) == IF decErr = "EOF" THEN "" ELSE decErr

\* taosclient.go:466-469.
TolerateEOF(decErr, status) ==
    IF decErr # "" /\ decErr = "EOF" /\ status # StatusOK THEN "" ELSE decErr

\* Mutant of StatusError: no error is synthesized for a non-200 status.
StatusError_Never(status, resp) == NilErr

\* taosclient.go:477-480.
StatusError(status, resp) ==
    IF status # StatusOK /\ ResponseError(resp) = NilErr
      THEN ErrStatus(status)
      ELSE NilErr

\* taosclient.go:446-481 (the request is sent and h is the server's answer).
Query(h) ==
    LET chk == checkResponse(h)
        dec == DecodeBody(h.body)
        decErr == TolerateEOF(dec.err, h.status)
    IN  IF chk # NilErr
          THEN [hasResp |-> FALSE, resp |-> ZeroResponse, err |-> chk]
        ELSE IF decErr # ""
          THEN [hasResp |-> FALSE, resp |-> ZeroResponse,
                err |-> ErrDecode(h.status, decErr)]
        ELSE [hasResp |-> TRUE, resp |-> dec.resp,
              err |-> StatusError(h.status, dec.resp)]

\* options.go:222-245: the conversion of one cell by its column type. The type
\* assertion r[i].(string) of the TIMESTAMP case panics on a value that is not
\* a string.
ConvertCell(ctype, v, dflt) ==
    IF ctype \in IntTypes
      THEN IF v.t = "json.Number"
             THEN [st |-> "ok", val |-> ParseInt64(v.s).val]
             ELSE [st |-> "ok", val |-> dflt]
    ELSE IF ctype \in FloatTypes
      THEN IF v.t = "json.Number"
             THEN [st |-> "ok", val |-> ParseFloat64(v.s).val]
             ELSE [st |-> "ok", val |-> dflt]
    ELSE IF ctype = T_TIMESTAMP
      THEN IF v.t # "string"
             THEN [st |-> "panic", val |-> GoNil]
             ELSE LET ts == ParseTimestamp(v.s)
                  IN  IF ts.ok THEN [st |-> "ok", val |-> IntToInt64(ts.unix)]
                      ELSE [st |-> "ok", val |-> GoInt0]
    ELSE [st |-> "ok", val |-> v]

\* options.go:211-249: the columns of one row from the i-th on, acc being the
\* map built so far.
RECURSIVE ProjectCols(_, _, _, _, _, _)
ProjectCols(meta, r, i, acc, conv, dflt) ==
    IF i > Len(meta) THEN [st |-> "ok", row |-> acc]
    ELSE LET c == meta[i]
         IN  IF Len(c) # 3 THEN [st |-> "error", row |-> acc]
             ELSE IF c[1].t # "string" THEN [st |-> "panic", row |-> acc]
             ELSE IF c[1].s = Placeholder
               THEN ProjectCols(meta, r, i + 1, acc, conv, dflt)
             ELSE IF conv /\ c[2].t # "string" THEN [st |-> "panic", row |-> acc]
             ELSE IF i > Len(r) THEN [st |-> "panic", row |-> acc]
             ELSE LET cell == IF conv THEN ConvertCell(c[2].s, r[i], dflt)
                                      ELSE [st |-> "ok", val |-> r[i]]
                  IN  IF cell.st # "ok" THEN [st |-> cell.st, row |-> acc]
                      ELSE ProjectCols(meta, r, i + 1,
                                       (c[1].s :> cell.val) @@ acc, conv, dflt)

\* options.go:209-251: the rows from the k-th on; result holds the maps of the
\* rows before.
RECURSIVE ProjectRows(_, _, _, _, _)
ProjectRows(resp, k, result, conv, dflt) ==
    IF k > Len(resp.Data)
      THEN [result |-> result, err |-> NilErr, panic |-> FALSE]
    ELSE LET p == ProjectCols(resp.ColumnMeta, resp.Data[k], 1, <<>>, conv, dflt)
         IN  CASE p.st = "error" ->
                    [result |-> <<>>, err |-> ErrColumnMeta, panic |-> FALSE]
               [] p.st = "panic" ->
                    [result |-> <<>>, err |-> NilErr, panic |-> TRUE]
               [] OTHER ->
                    ProjectRows(resp, k + 1, Append(result, p.row), conv, dflt)

\* options.go:193-255 with a client whose construction succeeded.
QueryData(h, conv, dflt) ==
    LET q == Query(h)
        e == ResponseError(q.resp)
    IN  IF q.err # NilErr
          THEN [result |-> <<>>, err |-> q.err, panic |-> FALSE]
        ELSE IF e # NilErr
          THEN IF e = ErrNotExistsTable
                 THEN [result |-> <<>>, err |-> NilErr, panic |-> FALSE]
                 ELSE [result |-> <<>>, err |-> e, panic |-> FALSE]
        ELSE ProjectRows(q.resp, 1, <<>>, conv, dflt)


\* ---- the inputs of the query path
Statuses == {200, 204, 404, 500, 503}
\* "application/json; charset=utf-8".
JsonUtf8 ==
    ApplicationJson
    \o <<";", " ", "c", "h", "a", "r", "s", "e", "t", "=", "u", "t", "f", "-", "8">>

\* Content-Type headers: among them "Application/JSON;charset=UTF-8",
\* "text/html", and "APPLICATION/JSON" with a capital dotted I (U+0130) between
\* an em space and an ideographic space.
ContentTypes ==
    {ApplicationJson, JsonUtf8, <<>>,
     <<"U+2003", "A", "P", "P", "L", "U+0130", "C", "A", "T", "I", "O", "N", "/", "J", "S", "O", "N", "U+3000">>,
     <<"A", "p", "p", "l", "i", "c", "a", "t", "i", "o", "n", "/", "J", "S", "O", "N", ";", "c", "h", "a", "r", "s", "e", "t", "=", "U", "T", "F", "-", "8">>,
     <<"t", "e", "x", "t", "/", "h", "t", "m", "l">>}

\* Column metadata entries: well formed {name, type, size}, and two that are
\* not of three elements.
ColEntries ==
    {<<JStr(<<"n">>), JStr(T_BIGINT), JNum(<<"8">>)>>,
     <<JStr(<<"f">>), JStr(T_DOUBLE), JNum(<<"8">>)>>,
     <<JStr(<<"s">>), JStr(T_TIMESTAMP), JNum(<<"8">>)>>,
     <<JStr(<<"v">>), JStr(T_NCHAR), JNum(<<"1", "6">>)>>,
     <<JStr(Placeholder), JStr(T_INT_UNSIGNED), JNum(<<"4">>)>>,
     <<JStr(<<"x">>), JStr(T_INT)>>}

\* The cells a row can hold in a column of each kind, by variant of the row.
IntCells ==
    <<JNum(<<"4", "2">>), JStr(<<"4", "2">>), JNull, JNum(<<"1", ".", "5">>),
      JNum(<<"9", "2", "2", "3", "3", "7", "2", "0", "3", "6", "8", "5", "4", "7", "7", "5", "8", "0", "8">>)>>
FloatCells ==
    <<JNum(<<"1", ".", "5">>), JStr(<<"1", ".", "5">>), JNull, JNum(<<"4", "2">>),
      JNum(<<"-", "0", ".", "5">>)>>
TimestampCells ==
    <<JStr(<<"2", "0", "2", "4", "-", "0", "1", "-", "0", "1", "T", "0", "0", ":", "0", "0", ":", "0", "0", ".", "0", "0", "0", "0", "0", "0", "0", "0", "0", "Z">>),
      JStr(<<"2", "0", "2", "4", "-", "0", "2", "-", "2", "9", "T", "5", ":", "0", "4", ":", "0", "5", "Z">>),
      JStr(<<"2", "0", "2", "4", "-", "0", "1", "-", "0", "1", " ", "0", "0", ":", "0", "0", ":", "0", "0">>),
      JNull,
      JStr(<<"2", "0", "2", "3", "-", "0", "2", "-", "2", "9", "T", "0", "0", ":", "0", "0", ":", "0", "0", ".", "5", "Z">>)>>
OtherCells ==
    <<JStr(<<"a", "b", "c">>), JStr(<<"4", "2">>), JNull, JNum(<<"7">>),
      JStr(<<>>)>>

RowVariants == 1..Len(IntCells)

CellOf(entry, v) ==
    IF Len(entry) < 2 THEN IntCells[v]
    ELSE IF entry[2].s \in IntTypes THEN IntCells[v]
    ELSE IF entry[2].s \in FloatTypes THEN FloatCells[v]
    ELSE IF entry[2].s = T_TIMESTAMP THEN TimestampCells[v]
    ELSE OtherCells[v]

RowOf(meta, v) == [i \in 1..Len(meta) |-> CellOf(meta[i], v)]

SeqsUpTo(S, n) == UNION {[1..k -> S] : k \in 0..n}

Metas == SeqsUpTo(ColEntries, MaxCols)

\* The data of a response: up to MaxRows rows of consecutive variants, from
\* any first variant.
DataOf(meta) ==
    {[k \in 1..n |-> RowOf(meta, ((v + k - 2) % Len(IntCells)) + 1)] :
        n \in 0..MaxRows, v \in RowVariants}

EmptyPayload == [code |-> 0, desc |-> "", column_meta |-> <<>>, data |-> <<>>]

\* Payloads that carry an application error.
ErrorPayloads ==
    {[code |-> c, desc |-> d, column_meta |-> <<>>, data |-> <<>>] :
        c \in {0, CodeTableNotExists, CodeStreamNotExists, 534},
        d \in {"", "Table does not exist", "table does not exist"}}
    \ {EmptyPayload}

\* Payloads of a successful statement.
TablePayloads ==
    UNION {{[code |-> 0, desc |-> "", column_meta |-> m, data |-> d] : d \in DataOf(m)} :
              m \in Metas}

JsonBody(p) == [kind |-> "json", payload |-> p]
OtherBodies == {[kind |-> k, payload |-> EmptyPayload] : k \in {"empty", "truncated", "malformed"}}

\* The answers of the server: every status and content type with the bodies
\* that do not carry a table, and the table payloads as a 200 JSON answer.
HttpResponses ==
    {[status |-> st, ctype |-> ct, body |-> b] :
        st \in Statuses, ct \in ContentTypes,
        b \in OtherBodies \cup {JsonBody(p) : p \in ErrorPayloads \cup {EmptyPayload}}}
    \cup
    {[status |-> st, ctype |-> ApplicationJson, body |-> JsonBody(p)] :
        st \in {StatusOK}, p \in TablePayloads}

DefaultNumberValues == {GoNil, GoInt64(TRUE, <<"1">>)}

\* The flag and the default value: the default is read only when the flag is set.
ConvertSettings ==
    {[convert |-> FALSE, dflt |-> GoNil]}
    \cup {[convert |-> TRUE, dflt |-> d] : d \in DefaultNumberValues}

InitBridgeIdle ==
    /\ pc = "off"
    /\ topic = ""
    /\ chNil = TRUE
    /\ chCap = 0
    /\ cancelled = FALSE
    /\ observed = FALSE
    /\ obsAt = 0
    /\ buf = <<>>
    /\ recvWaiting = FALSE
    /\ received = <<>>
    /\ chClosed = FALSE
    /\ calls = <<>>
    /\ acquired = 0
    /\ nPolls = 0
    /\ ev = NoEvent
    /\ polled = <<>>
    /\ sent = <<>>
    /\ sendLog = <<>>
    /\ ret = "none"
    /\ deferred = <<>>
    /\ subscribed = FALSE
    /\ unsubRes = "none"
    /\ pollLog = <<>>

\* ============================================== batch points, client.Write
\* ---- time.ParseDuration, as NewBatchPoints and SetPrecision call it on
\* "1" + precision.  A string is a tuple of characters; "U+00B5" and "U+03BC"
\* are the micro sign and the Greek letter mu.
UnitNames ==
    {<<"n", "s">>, <<"u", "s">>, <<"U+00B5", "s">>, <<"U+03BC", "s">>,
     <<"m", "s">>, <<"s">>, <<"m">>, <<"h">>}

\* The nanoseconds of a unit, in decimal digits.
UnitNanos(u) ==
    CASE u = <<"n", "s">> -> <<"1">>
      [] u \in {<<"u", "s">>, <<"U+00B5", "s">>, <<"U+03BC", "s">>} ->
           <<"1", "0", "0", "0">>
      [] u = <<"m", "s">> -> <<"1", "0", "0", "0", "0", "0", "0">>
      [] u = <<"s">> -> <<"1", "0", "0", "0", "0", "0", "0", "0", "0", "0">>
      [] u = <<"m">> -> <<"6", "0", "0", "0", "0", "0", "0", "0", "0", "0", "0">>
      [] u = <<"h">> ->
           <<"3", "6", "0", "0", "0", "0", "0", "0", "0", "0", "0", "0", "0">>

\* unitMap: the nanoseconds of each unit.
unitMap == [u \in UnitNames |-> NatOfDigits(UnitNanos(u))]

\* 1<<63 / unit, the largest integer part a term of that unit may have.
UnitLimit(u) ==
    CASE u = <<"n", "s">> -> MinInt64Magnitude
      [] u \in {<<"u", "s">>, <<"U+00B5", "s">>, <<"U+03BC", "s">>} ->
           <<"9", "2", "2", "3", "3", "7", "2", "0", "3", "6", "8", "5", "4", "7", "7", "5">>
      [] u = <<"m", "s">> ->
           <<"9", "2", "2", "3", "3", "7", "2", "0", "3", "6", "8", "5", "4">>
      [] u = <<"s">> -> <<"9", "2", "2", "3", "3", "7", "2", "0", "3", "6">>
      [] u = <<"m">> -> <<"1", "5", "3", "7", "2", "2", "8", "6", "7">>
      [] u = <<"h">> -> <<"2", "5", "6", "2", "0", "4", "7">>

\* The errors of ParseDuration: "time: invalid duration", "time: missing unit
\* in duration" and "time: unknown unit u in duration", each with the string
\* it was given.
ErrDuration(kind, u, orig) == [kind |-> kind, unit |-> u, duration |-> orig]

\* The length of the unit: up to the next '.' or digit.
UnitLen(s) == PrefixLen(s, LAMBDA c : c \notin DigitChars /\ c # ".")

\* leadingFraction on the digits s: x is the value of the digits taken and
\* scale their number.  A digit is taken while x is at most (1<<63 - 1) / 10
\* and stays at most 1<<63 with it; the digits after it are skipped.
LeadingFraction(s) ==
    LET fits(n) ==
            \/ n = 0
            \/ /\ ~MagGreater(StripZeros(SubSeq(s, 1, n - 1)),
                              SubSeq(MaxInt64Digits, 1, Len(MaxInt64Digits) - 1))
               /\ ~MagGreater(StripZeros(SubSeq(s, 1, n)), MinInt64Magnitude)
        taken == CHOOSE n \in 0..Len(s) : fits(n) /\ (n = Len(s) \/ ~fits(n + 1))
    IN  [x |-> NatOfDigits(SubSeq(s, 1, taken)), scale |-> taken]

\* scale after n digits: 1 multiplied n times by 10 on float64.  The first 22
\* products are exact.
RECURSIVE FractionScale(_)
FractionScale(n) ==
    IF n <= 22
      THEN [m |-> NatOfDigits(<<"1">> \o [i \in 1..n |-> "0"]), e |-> 0]
      ELSE Float64Mul(FractionScale(n - 1), [m |-> <<10>>, e |-> 0])

\* uint64(float64(f) * (float64(unit) / scale)) for f > 0; a unit is a float64
\* as it is.  With f below 1<<63, the unit at most an hour and a scale of 1e32
\* or more (+Inf in the end) the product is below 1 and its integer part 0.
FractionNanos(f, unit, scale) ==
    IF scale >= 32 THEN <<>>
    ELSE Float64ToUint64(
             Float64Mul(Float64Round(f, 0, FALSE),
                        Float64Quo([m |-> unit, e |-> 0], FractionScale(scale))))

\* 1<<63.
TwoTo63 == NatShiftLeft(<<1>>, 63)

\* The parts of the term [0-9]*(\.[0-9]*)?[^0-9.]* at the head of s: the digits
\* before the point, those after it, the unit and what follows the term.
ScanTerm(s) ==
    With(LeadingDigits(s), LAMBDA nInt :
    With(IF nInt < Len(s) /\ s[nInt + 1] = "." THEN Drop(s, nInt + 1) ELSE Drop(s, nInt),
         LAMBDA s2 :
    With(LeadingDigits(s2), LAMBDA nFrac :
    With(UnitLen(Drop(s2, nFrac)), LAMBDA i :
        [int |-> SubSeq(s, 1, nInt),
         frac |-> SubSeq(s2, 1, nFrac),
         unit |-> SubSeq(s2, nFrac + 1, nFrac + i),
         rest |-> Drop(s2, nFrac + i)]))))

\* v of a term of int nanosecond units with the fraction frac:
\* v *= unit; if f > 0 { v += uint64(float64(f) * (float64(unit) / scale)) }.
TermNanos(int, frac, unit) ==
    IF frac.x = <<>> THEN NatMul(unit, int)
    ELSE NatAdd(NatMul(unit, int), FractionNanos(frac.x, unit, frac.scale))

\* The loop over the terms of a duration, d being the sum of the terms before
\* s: the error of the first term that fails, or nil and the sum of all terms.
\* d += v is on uint64: the sum wraps, to 0, when both are 1<<63.
RECURSIVE ParseTerms(_, _, _)
ParseTerms(s, orig, d) ==
    LET invalid == [err |-> ErrDuration("time: invalid duration", <<>>, orig), d |-> d]
    IN  IF s = <<>> THEN [err |-> NilErr, d |-> d]
        ELSE IF Head(s) \notin DigitChars /\ Head(s) # "." THEN invalid
        ELSE
          With(ScanTerm(s), LAMBDA t :
          With(StripZeros(t.int), LAMBDA int :
              IF MagGreater(int, MinInt64Magnitude) THEN invalid
              ELSE IF t.int = <<>> /\ t.frac = <<>> THEN invalid
              ELSE IF t.unit = <<>>
                THEN [err |-> ErrDuration("time: missing unit in duration", <<>>, orig),
                      d |-> d]
              ELSE IF t.unit \notin UnitNames
                THEN [err |-> ErrDuration("time: unknown unit in duration", t.unit, orig),
                      d |-> d]
              ELSE IF MagGreater(int, UnitLimit(t.unit)) THEN invalid
              ELSE
                With(TermNanos(NatOfDigits(int), LeadingFraction(t.frac),
                               unitMap[t.unit]), LAMBDA v :
                    IF NatLess(TwoTo63, v) THEN invalid
                    ELSE
                      With(Uint64(NatAdd(d, v)), LAMBDA sum :
                          IF NatLess(TwoTo63, sum) THEN invalid
                          ELSE ParseTerms(t.rest, orig, sum)))))

\* The error of time.ParseDuration(s): a duration that is not negative must
\* be below 1<<63 ns.
ParseDuration(s) ==
    LET r == IF s # <<>> /\ Head(s) \in {"-", "+"} THEN Tail(s) ELSE s
    IN  IF r = <<"0">> THEN NilErr
        ELSE IF r = <<>> THEN ErrDuration("time: invalid duration", <<>>, s)
        ELSE
          With(ParseTerms(r, s, <<>>), LAMBDA t :
              IF t.err # NilErr THEN t.err
              ELSE IF Head(s) # "-" /\ ~NatLess(t.d, TwoTo63)
                THEN ErrDuration("time: invalid duration", <<>>, s)
              ELSE NilErr)

\* ---- BatchPoints
DefaultPrecision == <<"m", "s">>

\* No batch: the nil BatchPoints NewBatchPoints returns with an error.
NoBatch == [exists |-> FALSE, points |-> <<>>, database |-> "", precision |-> <<>>]

\* The precisions the callers pass: none, the units, and strings that are no
\* unit ("d"), lack one ("1"), make two terms ("s1ms") or a fraction (".5s").
PrecisionInputs ==
    {<<>>, <<"n", "s">>, <<"u", "s">>, <<"m", "s">>, <<"s">>,
     <<"U+00B5", "s">>, <<"m">>, <<"h">>, <<"d">>, <<"1">>,
     <<"s", "1", "m", "s">>, <<".", "5", "s">>}

\* time.ParseDuration("1" + p): the results for the precisions above are
\* computed once and looked up, any other string is parsed in place.
PrecisionErrors == [p \in PrecisionInputs |-> ParseDuration(<<"1">> \o p)]
ParsePrecision(p) ==
    IF p \in DOMAIN PrecisionErrors THEN PrecisionErrors[p]
    ELSE ParseDuration(<<"1">> \o p)

NewBatchPoints(conf) ==
    LET precision == IF conf.Precision = <<>> THEN DefaultPrecision
                     ELSE conf.Precision
    IN  With(ParsePrecision(precision), LAMBDA err :
            IF err # NilErr THEN [bp |-> NoBatch, err |-> err]
            ELSE [bp |-> [exists |-> TRUE, points |-> <<>>,
                          database |-> conf.Database, precision |-> precision],
                  err |-> NilErr])

AddPoint(b, p) == [b EXCEPT !.points = Append(b.points, p)]

AddPoints(b, ps) == [b EXCEPT !.points = b.points \o ps]

SetPrecision_AssignFirst(b, p) ==
    [bp |-> [b EXCEPT !.precision = p], err |-> ParseDuration(<<"1">> \o p)]

SetPrecision(b, p) ==
    With(ParsePrecision(p), LAMBDA err :
        IF err # NilErr THEN [bp |-> b, err |-> err]
        ELSE [bp |-> [b EXCEPT !.precision = p], err |-> NilErr])

SetDatabase(b, db) == [b EXCEPT !.database = db]

\* ---- DataPoint
\* A *DataPoint: nil, or a point NewDataPoint returned.
NilPoint == [nil |-> TRUE, id |-> 0]
DataPointOf(id) == [nil |-> FALSE, id |-> id]

\* The line-protocol text of a point with its timestamp at the precision.
PrecisionString(p, precision) ==
    [kind |-> "line", pt |-> p.id, precision |-> precision]

NewLine == [kind |-> "nl", pt |-> 0, precision |-> <<>>]

\* ---- client.Write
DefaultEncoding == ""
GzipEncoding == "gzip"
WriteDataURL == "influxdb/v1/write"

\* The loop over bp.Points(): what is written to w.
WriteBuffer_StopAtNil(ps, precision) ==
    IF ps = <<>> \/ Head(ps).nil THEN <<>>
    ELSE <<PrecisionString(Head(ps), precision), NewLine>>

RECURSIVE WriteBuffer(_, _)
WriteBuffer(ps, precision) ==
    IF ps = <<>> THEN <<>>
    ELSE IF Head(ps).nil THEN WriteBuffer(Tail(ps), precision)
    ELSE <<PrecisionString(Head(ps), precision), NewLine>>
           \o WriteBuffer(Tail(ps), precision)

\* The request client.Write builds; with the gzip encoding the buffer holds
\* the compressed stream of what was written.
WriteRequest(enc, b) ==
    [method |-> "POST",
     path |-> WriteDataURL,
     contentEncoding |-> enc,
     contentType |-> "",
     db |-> b.database,
     precision |-> b.precision,
     body |-> [gzip |-> enc = GzipEncoding,
               data |-> WriteBuffer(b.points, b.precision)]]

\* What c.httpClient.Do and ioutil.ReadAll give: a transport error, or a
\* response with a status and a body that is read whole or fails to be read.
ErrTransport == [kind |-> "transport", status |-> 0, text |-> "connection refused"]
ErrReadBody == [kind |-> "read", status |-> 0, text |-> "unexpected EOF"]

\* The error client.Write returns for an outcome of the exchange.
WriteResult_OnlyOK(o) ==
    IF o.doErr # NilErr THEN o.doErr
    ELSE IF o.readErr # NilErr THEN o.readErr
    ELSE IF o.status # StatusOK THEN ErrorsNew(o.body)
    ELSE NilErr

WriteResult(o) ==
    IF o.doErr # NilErr THEN o.doErr
    ELSE IF o.readErr # NilErr THEN o.readErr
    ELSE IF o.status # StatusNoContent /\ o.status # StatusOK
      THEN ErrorsNew(o.body)
    ELSE NilErr

\* ---- inputs of the batch
MaxPoints == 3
\* The points of the callers: nil and two points NewDataPoint returned.
DataPoints == {NilPoint, DataPointOf(1), DataPointOf(2)}
HttpOutcomes ==
    {[doErr |-> ErrTransport, status |-> 0, body |-> "", readErr |-> NilErr]}
    \cup {[doErr |-> NilErr, status |-> st, body |-> b, readErr |-> NilErr] :
            st \in {StatusOK, StatusNoContent, 404, StatusInternalServerError},
            b \in {"", "database not found"}}
    \cup {[doErr |-> NilErr, status |-> st, body |-> "", readErr |-> ErrReadBody] :
            st \in {StatusOK, StatusInternalServerError}}

\* Before any call: no batch, nothing sent.
BatchFresh ==
    /\ bp = NoBatch
    /\ lastOp = [op |-> "none", arg |-> <<>>, err |-> NilErr]
    /\ added = <<>>
    /\ requests = <<>>
    /\ httpOutcome = [doErr |-> NilErr, status |-> 0, body |-> "", readErr |-> NilErr]
    /\ wErr = NilErr

InitBatchIdle ==
    /\ bpc = "off"
    /\ encoding = DefaultEncoding
    /\ BatchFresh

\* ===================================== construction from a configuration
\* ---- url.Parse on the addresses the model draws: the scheme it finds, or
\* its error.  An address that starts with a digit has no scheme, and a first
\* path segment with a colon is then refused; "localhost:6041" parses with
\* the scheme "localhost".
urlParse(addr) ==
    CASE addr = "http://127.0.0.1:6041" -> [err |-> NilErr, scheme |-> "http"]
      [] addr = "https://127.0.0.1:6041" -> [err |-> NilErr, scheme |-> "https"]
      [] addr = "ftp://127.0.0.1:6041" -> [err |-> NilErr, scheme |-> "ftp"]
      [] addr = "localhost:6041" -> [err |-> NilErr, scheme |-> "localhost"]
      [] addr = "" -> [err |-> NilErr, scheme |-> ""]
      [] addr = "127.0.0.1:6041" -> [err |-> [kind |-> "url.Parse", status |-> 0,
                  text |-> "first path segment in URL cannot contain colon"],
         scheme |-> ""]

\* No client: the nil Client NewHTTPClient returns with an error.
NoClient == [exists |-> FALSE, scheme |-> "", encoding |-> ""]

NewHTTPClient(conf) ==
    LET u == urlParse(conf.Addr)
    IN  IF u.err # NilErr THEN [client |-> NoClient, err |-> u.err]
        ELSE IF u.scheme # "http" /\ u.scheme # "https"
          THEN [client |-> NoClient, err |-> [kind |-> "Unsupported protocol scheme", status |-> 0,
                        text |-> u.scheme]]
        ELSE IF conf.WriteEncoding \notin {DefaultEncoding, GzipEncoding}
          THEN [client |-> NoClient,
                err |-> [kind |-> "unsupported encoding", status |-> 0,
                        text |-> conf.WriteEncoding]]
        ELSE [client |-> [exists |-> TRUE, scheme |-> u.scheme,
                          encoding |-> conf.WriteEncoding],
              err |-> NilErr]

\* ---- tsdbClient
\* The options after newDBOptions: the defaults, overridden by the
\* environment and then by the options of the caller.
DefaultDbOptions ==
    [DatabaseAddr |-> "http://127.0.0.1:6041", DatabaseName |-> "iot",
     PrecisionUnit |-> <<"m", "s">>]

NewTDEngineClient(dbOpt) ==
    LET r == NewHTTPClient([Addr |-> dbOpt.DatabaseAddr,
                            WriteEncoding |-> DefaultEncoding])
    IN  [httpClient |-> r.client,
         initialErr |-> r.err,
         Precision |-> dbOpt.PrecisionUnit,
         DBName |-> dbOpt.DatabaseName]

\* What a method of tsdbClient does: the error it returns, whether it made a
\* network call, whether it panicked (a method called on a nil interface).
CallResult(op, err, network, panic) ==
    [op |-> op, err |-> err, network |-> network, panic |-> panic]
\* tsdbClient.QueryData up to the call of client.Query; netErr is the error
\* the query gives when it is made.
TsdbQueryData(t, netErr) ==
    IF ~t.httpClient.exists \/ t.initialErr # NilErr
      THEN CallResult("QueryData", ErrNoClient, FALSE, FALSE)
      ELSE CallResult("QueryData", netErr, TRUE, FALSE)

\* NewDataPoint fails when the point has no name.
NewDataPointErr(name) ==
    IF name = "" THEN [kind |-> "NewPoint", status |-> 0, text |-> "missing name"]
    ELSE NilErr

\* tsdbClient.WriteData: the error of NewBatchPoints is dropped, so bps is
\* nil for a precision it refuses and bps.AddPoint panics; httpClient.Write
\* on the nil httpClient of a failed NewHTTPClient panics as well.
TsdbWriteData(t, name, netErr) ==
    With(NewBatchPoints([Precision |-> t.Precision, Database |-> t.DBName]).bp,
         LAMBDA bps :
        IF NewDataPointErr(name) # NilErr
          THEN CallResult("WriteData", NewDataPointErr(name), FALSE, FALSE)
        ELSE IF ~bps.exists THEN CallResult("WriteData", NilErr, FALSE, TRUE)
        ELSE IF ~t.httpClient.exists THEN CallResult("WriteData", NilErr, FALSE, TRUE)
        ELSE CallResult("WriteData", netErr, TRUE, FALSE))

\* tsdbClient.Close: client.Close closes the idle connections and returns
\* nil; on a nil httpClient the call panics.
TsdbClose(t) ==
    IF ~t.httpClient.exists THEN CallResult("Close", NilErr, FALSE, TRUE)
    ELSE CallResult("Close", NilErr, FALSE, FALSE)

\* ---- inputs of the construction
Configs ==
    [Addr : {"http://127.0.0.1:6041", "https://127.0.0.1:6041",
             "ftp://127.0.0.1:6041", "localhost:6041", "", "127.0.0.1:6041"},
     WriteEncoding : {DefaultEncoding, GzipEncoding, "deflate"},
     Precision : PrecisionInputs]

\* Before any construction.
ConfigFresh ==
    /\ hcRes = [client |-> NoClient, err |-> NilErr]
    /\ nbRes = [bp |-> NoBatch, err |-> NilErr]
    /\ tcli = [httpClient |-> NoClient, initialErr |-> NilErr,
               Precision |-> <<>>, DBName |-> ""]
    /\ callRes = CallResult("none", NilErr, FALSE, FALSE)

InitConfigIdle ==
    /\ cpc = "off"
    /\ cfg = [Addr |-> "", WriteEncoding |-> DefaultEncoding, Precision |-> <<>>]
    /\ ConfigFresh

\* ============================================ String0 and UnescapeString
\* ---- strings.NewReplacer(oldnew...).Replace: from left to right, at each
\* position the first pair whose old string starts there is replaced and the
\* scan goes on after it; a character where no pair matches is copied.
RECURSIVE Replace(_, _)
Replace(pairs, s) ==
    IF s = <<>> THEN <<>>
    ELSE
      LET m == {i \in 1..Len(pairs) :
                    /\ Len(pairs[i].old) <= Len(s)
                    /\ SubSeq(s, 1, Len(pairs[i].old)) = pairs[i].old}
      IN  IF m = {} THEN <<Head(s)>> \o Replace(pairs, Tail(s))
          ELSE
            LET i == CHOOSE k \in m : \A j \in m : k <= j
            IN  pairs[i].new \o Replace(pairs, Drop(s, Len(pairs[i].old)))

escaper_WithoutEquals ==
    <<[old |-> <<",">>, new |-> <<"\\", ",">>],
      [old |-> <<"\"">>, new |-> <<"\\", "\"">>],
      [old |-> <<" ">>, new |-> <<"\\", " ">>]>>

escaper ==
    <<[old |-> <<",">>, new |-> <<"\\", ",">>],
      [old |-> <<"\"">>, new |-> <<"\\", "\"">>],
      [old |-> <<" ">>, new |-> <<"\\", " ">>],
      [old |-> <<"=">>, new |-> <<"\\", "=">>]>>

unescaper ==
    <<[old |-> <<"\\", ",">>, new |-> <<",">>],
      [old |-> <<"\\", "\"">>, new |-> <<"\"">>],
      [old |-> <<"\\", " ">>, new |-> <<" ">>],
      [old |-> <<"\\", "=">>, new |-> <<"=">>]>>

UnescapeString(in) ==
    IF "\\" \notin SeqToSet(in) THEN in ELSE Replace(unescaper, in)

String0(in) == Replace(escaper, in)

\* ---- inputs of the escaper
MaxStrLen == 4

InitEscapeIdle ==
    /\ epc = "off"
    /\ escIn = <<>>
    /\ escOut = <<>>
    /\ unOut = <<>>
    /\ rawOut = <<>>

InitExtIdle == InitBatchIdle /\ InitConfigIdle /\ InitEscapeIdle

NoQueryResult == [hasResp |-> FALSE, resp |-> ZeroResponse, err |-> NilErr]
NoDataResult == [result |-> <<>>, err |-> NilErr, panic |-> FALSE]

InitQuery ==
    /\ InitBridgeIdle
    /\ qpc = "idle"
    /\ httpResp \in HttpResponses
    /\ \E c \in ConvertSettings :
         /\ convertNumber = c.convert
         /\ defaultNumberValue = c.dflt
    /\ qRes = NoQueryResult
    /\ qdRes = NoDataResult
    /\ InitExtIdle

\* client.Query on the server's answer.
DoQuery ==
    /\ qpc = "idle"
    /\ qRes' = Query(httpResp)
    /\ qpc' = "queried"
    /\ UNCHANGED <<httpResp, convertNumber, defaultNumberValue, qdRes, bridgeVars, extVars>>

\* tsdbClient.QueryData on the server's answer.
DoQueryData ==
    /\ qpc = "idle"
    /\ qRes' = Query(httpResp)
    /\ qdRes' = QueryData(httpResp, convertNumber, defaultNumberValue)
    /\ qpc' = "read"
    /\ UNCHANGED <<httpResp, convertNumber, defaultNumberValue, bridgeVars, extVars>>

NextQuery == DoQuery \/ DoQueryData

SpecQuery == InitQuery /\ [][NextQuery]_vars

InitQueryIdle ==
    /\ qpc = "off"
    /\ httpResp = [status |-> StatusOK, ctype |-> <<>>, body |-> JsonBody(EmptyPayload)]
    /\ convertNumber = FALSE
    /\ defaultNumberValue = GoNil
    /\ qRes = NoQueryResult
    /\ qdRes = NoDataResult

Init == InitBridge /\ InitQueryIdle /\ InitExtIdle

Next ==
    \/ Enter
    \/ NewConsumer
    \/ DoSubscribe
    \/ LoopSelect
    \/ DoPoll
    \/ DoSend
    \/ DoUnsubscribe
    \/ CloseChan
    \/ ReturnNil
    \/ RunDefer
    \/ Cancel
    \/ RecvTake
    \/ RecvWait

Spec == Init /\ [][Next]_vars

\* ------------------------------------------- batch points and client.Write
InitBatch ==
    /\ InitBridgeIdle
    /\ InitQueryIdle
    /\ InitConfigIdle
    /\ InitEscapeIdle
    /\ bpc = "open"
    /\ encoding \in {DefaultEncoding, GzipEncoding}
    /\ BatchFresh


\* bp, err := NewBatchPoints(conf): on an error the caller holds no batch.
DoNewBatchPoints ==
    /\ bpc = "open"
    /\ \E p \in PrecisionInputs :
         \E r \in {NewBatchPoints([Precision |-> p, Database |-> "db"])} :
             /\ bp' = r.bp
             /\ lastOp' = [op |-> "NewBatchPoints", arg |-> p, err |-> r.err]
    /\ added' = <<>>
    /\ UNCHANGED <<bpc, encoding, requests, httpOutcome, wErr, bridgeVars, queryVars,
                   configVars, escapeVars>>

DoSetPrecision ==
    /\ bpc = "open"
    /\ bp.exists
    /\ \E p \in PrecisionInputs :
         \E r \in {SetPrecision(bp, p)} :
             /\ bp' = r.bp
             /\ lastOp' = [op |-> "SetPrecision", arg |-> p, err |-> r.err]
    /\ UNCHANGED <<bpc, encoding, added, requests, httpOutcome, wErr, bridgeVars, queryVars,
                   configVars, escapeVars>>

DoSetDatabase ==
    /\ bpc = "open"
    /\ bp.exists
    /\ \E d \in {"db", "db2"} : bp' = SetDatabase(bp, d)
    /\ lastOp' = [op |-> "SetDatabase", arg |-> <<>>, err |-> NilErr]
    /\ UNCHANGED <<bpc, encoding, added, requests, httpOutcome, wErr, bridgeVars, queryVars,
                   configVars, escapeVars>>

DoAddPoint ==
    /\ bpc = "open"
    /\ bp.exists
    /\ Len(bp.points) < MaxPoints
    /\ \E p \in DataPoints :
         /\ bp' = AddPoint(bp, p)
         /\ added' = Append(added, p)
    /\ lastOp' = [op |-> "AddPoint", arg |-> <<>>, err |-> NilErr]
    /\ UNCHANGED <<bpc, encoding, requests, httpOutcome, wErr, bridgeVars, queryVars,
                   configVars, escapeVars>>

DoAddPoints ==
    /\ bpc = "open"
    /\ bp.exists
    /\ \E ps \in SeqsUpTo(DataPoints, MaxPoints - Len(bp.points)) :
         /\ bp' = AddPoints(bp, ps)
         /\ added' = added \o ps
    /\ lastOp' = [op |-> "AddPoints", arg |-> <<>>, err |-> NilErr]
    /\ UNCHANGED <<bpc, encoding, requests, httpOutcome, wErr, bridgeVars, queryVars,
                   configVars, escapeVars>>

\* c.Write(bp): the request is built and sent once, and the answer of the
\* exchange decides the error.
DoWrite ==
    /\ bpc = "open"
    /\ bp.exists
    /\ \E o \in HttpOutcomes :
         /\ httpOutcome' = o
         /\ wErr' = WriteResult(o)
    /\ requests' = Append(requests, WriteRequest(encoding, bp))
    /\ bpc' = "written"
    /\ lastOp' = [op |-> "Write", arg |-> <<>>, err |-> wErr']
    /\ UNCHANGED <<encoding, bp, added, bridgeVars, queryVars,
                   configVars, escapeVars>>

NextBatch ==
    \/ DoNewBatchPoints
    \/ DoSetPrecision
    \/ DoSetDatabase
    \/ DoAddPoint
    \/ DoAddPoints
    \/ DoWrite

SpecBatch == InitBatch /\ [][NextBatch]_vars

\* --------------------------------------- construction from a configuration
InitConfig ==
    /\ InitBridgeIdle
    /\ InitQueryIdle
    /\ InitBatchIdle
    /\ InitEscapeIdle
    /\ cpc = "new"
    /\ cfg \in Configs
    /\ ConfigFresh

\* c, err := NewHTTPClient(conf)
DoNewHTTPClient ==
    /\ cpc = "new"
    /\ hcRes' = NewHTTPClient([Addr |-> cfg.Addr, WriteEncoding |-> cfg.WriteEncoding])
    /\ cpc' = "http"
    /\ UNCHANGED <<cfg, nbRes, tcli, callRes, bridgeVars, queryVars,
                   batchVars, escapeVars>>

\* bp, err := NewBatchPoints(conf)
DoNewBatchPointsOf ==
    /\ cpc = "new"
    /\ nbRes' = NewBatchPoints([Precision |-> cfg.Precision, Database |-> "iot"])
    /\ cpc' = "batch"
    /\ UNCHANGED <<cfg, hcRes, tcli, callRes, bridgeVars, queryVars,
                   batchVars, escapeVars>>

\* cli := NewTDEngineClient(DatabaseAddr(addr), PrecisionUnit(precision))
DoNewTDEngineClient ==
    /\ cpc = "new"
    /\ tcli' = NewTDEngineClient([DefaultDbOptions EXCEPT
                                     !.DatabaseAddr = cfg.Addr,
                                     !.PrecisionUnit = cfg.Precision])
    /\ cpc' = "tsdb"
    /\ UNCHANGED <<cfg, hcRes, nbRes, callRes, bridgeVars, queryVars,
                   batchVars, escapeVars>>

DoTsdbQueryData ==
    /\ cpc = "tsdb"
    /\ \E e \in {NilErr, ErrTransport} : callRes' = TsdbQueryData(tcli, e)
    /\ cpc' = IF callRes'.panic THEN "crashed" ELSE "tsdb"
    /\ UNCHANGED <<cfg, hcRes, nbRes, tcli, bridgeVars, queryVars,
                   batchVars, escapeVars>>

DoTsdbWriteData ==
    /\ cpc = "tsdb"
    /\ \E n \in {"", "meter"}, e \in {NilErr, ErrTransport} : callRes' = TsdbWriteData(tcli, n, e)
    /\ cpc' = IF callRes'.panic THEN "crashed" ELSE "tsdb"
    /\ UNCHANGED <<cfg, hcRes, nbRes, tcli, bridgeVars, queryVars,
                   batchVars, escapeVars>>

DoTsdbClose ==
    /\ cpc = "tsdb"
    /\ callRes' = TsdbClose(tcli)
    /\ cpc' = IF callRes'.panic THEN "crashed" ELSE "tsdb"
    /\ UNCHANGED <<cfg, hcRes, nbRes, tcli, bridgeVars, queryVars,
                   batchVars, escapeVars>>

NextConfig ==
    \/ DoNewHTTPClient
    \/ DoNewBatchPointsOf
    \/ DoNewTDEngineClient
    \/ DoTsdbQueryData
    \/ DoTsdbWriteData
    \/ DoTsdbClose

SpecConfig == InitConfig /\ [][NextConfig]_vars

\* ---------------------------------------------- String0 and UnescapeString
InitEscape ==
    /\ InitBridgeIdle
    /\ InitQueryIdle
    /\ InitBatchIdle
    /\ InitConfigIdle
    /\ epc = "in"
    /\ escIn \in SeqsUpTo({",", "\"", " ", "=", "\\", "a"}, MaxStrLen)
    /\ escOut = <<>>
    /\ unOut = <<>>
    /\ rawOut = <<>>

\* escOut := String0(escIn)
DoString0 ==
    /\ epc = "in"
    /\ escOut' = String0(escIn)
    /\ epc' = "escaped"
    /\ UNCHANGED <<escIn, unOut, rawOut, bridgeVars, queryVars,
                   batchVars, configVars>>

\* unOut := UnescapeString(escOut)
DoUnescapeString ==
    /\ epc = "escaped"
    /\ unOut' = UnescapeString(escOut)
    /\ epc' = "unescaped"
    /\ UNCHANGED <<escIn, escOut, rawOut, bridgeVars, queryVars,
                   batchVars, configVars>>

\* rawOut := UnescapeString(escIn)
DoUnescapeInput ==
    /\ epc = "in"
    /\ rawOut' = UnescapeString(escIn)
    /\ epc' = "raw"
    /\ UNCHANGED <<escIn, escOut, unOut, bridgeVars, queryVars,
                   batchVars, configVars>>

NextEscape == DoString0 \/ DoUnescapeString \/ DoUnescapeInput

SpecEscape == InitEscape /\ [][NextEscape]_vars

\* ---------------------------------------------------- claims on the bridge
RECURSIVE Count(_, _)
Count(s, x) ==
    IF s = <<>> THEN 0
    ELSE (IF Head(s) = x THEN 1 ELSE 0) + Count(Tail(s), x)

StrictlyIncreasing(s) == \A i \in 1..Len(s) : \A j \in 1..Len(s) : i < j => s[i] < s[j]

LogIds(log) == {log[i].id : i \in 1..Len(log)}

\* C1: once a loop iteration has observed the cancellation (after a successful
\* Subscribe) no Poll is started any more, the next call on the consumer is
\* Unsubscribe, and when that Unsubscribe succeeds the channel is closed before
\* nil is returned, whatever the polls returned.
C1_CancelUnsubscribeCloseNil ==
    observed =>
        /\ subscribed
        /\ \A i \in (obsAt + 1)..Len(calls) : calls[i] # "Poll"
        /\ (pc # "unsub") => (Len(calls) > obsAt /\ calls[obsAt + 1] = "Unsubscribe")
        /\ (unsubRes = "ok" /\ pc \in {"retnil", "defer", "returned"}) => chClosed
        /\ (unsubRes = "ok" /\ pc \in {"defer", "returned"}) => ret = "nil"
        /\ (chClosed \/ ret = "nil") => unsubRes = "ok"

C1_Witness ==
    /\ pc = "returned"
    /\ observed
    /\ unsubRes = "ok"
    /\ chClosed
    /\ ret = "nil"
    /\ nPolls >= 2
    /\ \E i \in 1..Len(pollLog) : pollLog[i].kind = "message"

\* C2: when the Unsubscribe called on cancellation fails, the bridge returns
\* exactly that failure and never closes the destination channel.
C2_UnsubscribeFailureKeepsChannelOpen ==
    (unsubRes \in UnsubscribeErrors) =>
        /\ ~chClosed
        /\ pc \in {"defer", "returned"}
        /\ ret = unsubRes

C2_Witness ==
    /\ pc = "returned"
    /\ observed
    /\ unsubRes \in UnsubscribeErrors
    /\ ret = unsubRes
    /\ ~chClosed

\* The state part of C3: the messages put on the channel are the polled messages, in order and
\* without duplicates, less exactly those whose send found the channel full
\* (buffer at capacity and no receiver blocked); a send never blocks, and after
\* it the bridge is back at the top of the loop with no return value set.
C3_SentIsSubsequence ==
    /\ StrictlyIncreasing(polled)
    /\ StrictlyIncreasing(sent)
    /\ SeqToSet(sent) \subseteq SeqToSet(polled)
    /\ received \o buf = sent
    /\ SeqToSet(polled) \ LogIds(sendLog) = (IF pc = "send" THEN {ev.id} ELSE {})
    /\ \A i \in 1..Len(sendLog) :
         (sendLog[i].id \notin SeqToSet(sent))
            <=> (sendLog[i].len >= chCap /\ ~sendLog[i].waiting)

C3_SendNeverBlocks == pc = "send" => ENABLED DoSend

C3_SendStep ==
    (pc = "send" /\ pc' # "send") => (pc' = "loop" /\ ret' = "none" /\ ret = "none")

\* C3: in every state the sent messages are the polled ones in order, less
\* exactly those that found the channel full, the send is enabled whenever
\* the bridge is at it, and every send step leads back to the loop without a
\* return value.
C3_NonBlockingOrderedForwarding ==
    /\ [](C3_SentIsSubsequence /\ C3_SendNeverBlocks)
    /\ [][C3_SendStep]_vars

C3_Witness ==
    /\ pc = "loop"
    /\ Len(polled) >= 3
    /\ Len(sent) >= 2
    /\ Len(sent) < Len(polled)
    /\ ret = "none"

\* The state part of C4: a Poll that returns an error event is the last Poll; nothing is sent
\* after it, that error is what the bridge returns, and the channel stays open.
\* A nil event or an event of another type changes nothing and the bridge is
\* back at the top of the loop.
C4_ErrorEventIsTerminal ==
    \A i \in 1..Len(pollLog) :
        pollLog[i].kind = "error" =>
            /\ i = Len(pollLog)
            /\ Count(calls, "Poll") = i
            /\ pc \in {"defer", "returned"}
            /\ ret = pollLog[i].err
            /\ ~chClosed
            /\ ~observed
            /\ \A j \in 1..Len(sendLog) : sendLog[j].id < i
            /\ Len(sendLog) = Cardinality({k \in 1..i : pollLog[k].kind = "message"})

C4_IgnoredEventStep ==
    (pc = "poll" /\ pc' # "poll" /\ ev'.kind \in {"nil", "other"}) =>
        /\ pc' = "loop"
        /\ UNCHANGED <<chanVars, polled, sent, sendLog, ret, deferred,
                       observed, resVars>>

\* C4: in every state a polled error event is the last poll and the returned
\* error with the channel open, and every step that polls a nil or other
\* event changes nothing but the position of the bridge.
C4_PolledErrorEndsBridge ==
    /\ []C4_ErrorEventIsTerminal
    /\ [][C4_IgnoredEventStep]_vars

C4_Witness ==
    /\ pc = "returned"
    /\ ret \in PollErrors
    /\ Len(pollLog) >= 3
    /\ \E i \in 1..Len(pollLog) : pollLog[i].kind = "other"
    /\ \E i \in 1..Len(pollLog) : pollLog[i].kind = "message"
    /\ ~chClosed

\* C5: on every exit taken after a consumer was acquired, Close is called
\* exactly once and is the last call on the consumer; when Subscribe
\* succeeded, an Unsubscribe precedes it. With an empty topic or a nil channel
\* no consumer is acquired and no call is made.
C5_ConsumerReleased ==
    /\ acquired <= 1
    /\ \A i \in 1..Len(calls) : calls[i] = "Close" => i = Len(calls)
    /\ (Len(topic) = 0 \/ chNil) => (acquired = 0 /\ calls = <<>>)
    /\ acquired = 0 => calls = <<>>
    /\ (pc = "returned" /\ Len(topic) = 0) => ret = ErrTopicEmpty
    /\ (pc = "returned" /\ Len(topic) # 0 /\ chNil) => ret = ErrChNil
    /\ (pc = "returned" /\ acquired = 1) =>
         /\ Count(calls, "Close") = 1
         /\ calls[Len(calls)] = "Close"
         /\ subscribed =>
              \E i \in 1..(Len(calls) - 1) : calls[i] = "Unsubscribe"
         /\ ~subscribed => calls = <<"Subscribe", "Close">>

C5_Witness ==
    /\ pc = "returned"
    /\ acquired = 1
    /\ subscribed
    /\ ret \in PollErrors
    /\ Len(calls) >= 4
    /\ calls[Len(calls)] = "Close"
    /\ calls[Len(calls) - 1] = "Unsubscribe"

\* ------------------------------------------------ claims on the query path
Payload == httpResp.body.payload
PassesChecks ==
    /\ httpResp.status < StatusInternalServerError
    /\ MediaType(httpResp.ctype) = ApplicationJson
IsJson == httpResp.body.kind = "json"
HasAppError == Payload.code # 0 \/ Payload.desc # ""

\* C6 as stated: an end-of-input decode failure is tolerated exactly when the
\* status is not 200, the call then succeeding with an empty result and no
\* error; with status 200 it is a decode error and no response.
C6_Original ==
    (qpc = "queried" /\ PassesChecks /\ httpResp.body.kind = "empty") =>
        IF httpResp.status # StatusOK
          THEN qRes.err = NilErr /\ qRes.hasResp /\ qRes.resp = ZeroResponse
          ELSE qRes.err.kind = "decode" /\ ~qRes.hasResp

\* C6 (amended): the EOF of an empty body is not reported as a decode error
\* exactly when the status is not 200, and Query then returns the empty
\* response together with the error "received status code N from server"; with
\* status 200 it is a decode error and no response, and so is the unexpected
\* EOF of a truncated body at every status.
C6_EOFToleratedIntoStatusError ==
    (qpc = "queried" /\ PassesChecks) =>
        /\ httpResp.body.kind = "empty" =>
             IF httpResp.status # StatusOK
               THEN /\ qRes.hasResp
                    /\ qRes.resp = ZeroResponse
                    /\ qRes.err = ErrStatus(httpResp.status)
               ELSE /\ ~qRes.hasResp
                    /\ qRes.err = ErrDecode(StatusOK, "EOF")
        /\ httpResp.body.kind = "truncated" =>
             /\ ~qRes.hasResp
             /\ qRes.err = ErrDecode(httpResp.status, "unexpected EOF")

C6_Witness ==
    /\ qpc = "queried"
    /\ httpResp.status = 404
    /\ httpResp.ctype = JsonUtf8
    /\ httpResp.body.kind = "empty"
    /\ qRes.hasResp
    /\ qRes.err.kind = "status"

\* C7: for a response that passes the checks and decodes, Query returns an
\* error exactly when the status is not 200 and the payload has code 0 and an
\* empty description; a payload with an application error comes back with a
\* nil error at every status below 500.
C7_NonOKWithoutAppErrorIsError ==
    (qpc \in {"queried", "read"} /\ PassesChecks /\ IsJson) =>
        /\ qRes.hasResp
        /\ qRes.resp.Code = Payload.code
        /\ qRes.resp.Desc = Payload.desc
        /\ (qRes.err # NilErr) <=> (httpResp.status # StatusOK /\ ~HasAppError)
        /\ (qRes.err # NilErr) => qRes.err = ErrStatus(httpResp.status)

C7_Witness ==
    /\ qpc = "queried"
    /\ PassesChecks
    /\ IsJson
    /\ httpResp.status = 404
    /\ Payload.code = 534
    /\ Payload.desc = "Table does not exist"
    /\ qRes.hasResp
    /\ qRes.err = NilErr

\* C8: for a response Query returned without error, QueryData returns no rows
\* and a nil error when the code is 9826 or 9750, whatever the description
\* (Response.Error() is then the sentinel ErrNotExistsTable); a non-nil error
\* that is not the sentinel and no rows for any other non-zero code or
\* non-empty description; and otherwise the projection of the rows.
C8_TableNotExistsIsEmptyResult ==
    (qpc = "read" /\ PassesChecks /\ IsJson /\ qRes.err = NilErr) =>
        IF Payload.code \in {9826, 9750}
          THEN /\ ResponseError(qRes.resp) = ErrNotExistsTable
               /\ qdRes = [result |-> <<>>, err |-> NilErr, panic |-> FALSE]
        ELSE IF HasAppError
          THEN /\ qdRes.result = <<>>
               /\ qdRes.err = ErrorsNew(Payload.desc)
               /\ qdRes.err # NilErr
               /\ qdRes.err # ErrNotExistsTable
               /\ ~qdRes.panic
        ELSE /\ qdRes.err \in {NilErr, ErrColumnMeta}
             /\ (qdRes.err = NilErr /\ ~qdRes.panic) =>
                    Len(qdRes.result) = Len(Payload.data)

C8_Witness ==
    /\ qpc = "read"
    /\ PassesChecks
    /\ httpResp.status = 404
    /\ Payload.code = 9750
    /\ Payload.desc = "Table does not exist"
    /\ qRes.err = NilErr
    /\ qdRes.result = <<>>
    /\ qdRes.err = NilErr

Malformed(meta) == \E i \in 1..Len(meta) : Len(meta[i]) # 3

\* C9 as stated: a successful response whose column metadata has an entry
\* that is not of three elements makes QueryData, whenever it returns, return
\* an error and no rows, for every number of data rows including zero.
C9_Original ==
    (qpc = "read" /\ PassesChecks /\ IsJson /\ httpResp.status = StatusOK
       /\ ~HasAppError /\ Malformed(Payload.column_meta) /\ ~qdRes.panic) =>
        /\ qdRes.err # NilErr
        /\ qdRes.result = <<>>

\* A number literal of JSON without exponent.
IsIntLiteral(str) ==
    LET d == IF Len(str) > 0 /\ str[1] = "-" THEN Tail(str) ELSE str
    IN  d # <<>> /\ AllDigits(d) /\ (Len(d) > 1 => d[1] # "0")

IsNumberLiteral(str) ==
    \/ IsIntLiteral(str)
    \/ \E k \in 2..(Len(str) - 1) :
         /\ str[k] = "."
         /\ IsIntLiteral(SubSeq(str, 1, k - 1))
         /\ AllDigits(SubSeq(str, k + 1, Len(str)))

\* "Numeric-shaped": the text of the wire value, a number or a string as in
\* the example of the claim, is a number.
NumericShaped(raw) == raw.t \in {"number", "string"} /\ IsNumberLiteral(raw.s)

\* What C10 says a cell of a column of type ctype holds; Unconstrained where
\* it says nothing (an integer column whose numeric text is no int64).
Unconstrained == [t |-> "any", s |-> <<>>]

ClaimedCell(ctype, raw, conv, dflt) ==
    IF ~conv THEN DecodeValue(raw)
    ELSE IF ctype \in IntTypes
      THEN IF ~NumericShaped(raw) THEN dflt
           ELSE IF IsIntLiteral(raw.s) /\ Len(raw.s) <= 18
                  THEN [t |-> "int64", s |-> raw.s]
                  ELSE Unconstrained
    ELSE IF ctype \in FloatTypes
      THEN IF NumericShaped(raw) THEN GoFloat64(raw.s) ELSE dflt
    ELSE IF ctype = T_TIMESTAMP
      THEN IF raw.t = "string" /\ ParseTimestamp(raw.s).ok
             THEN IntToInt64(ParseTimestamp(raw.s).unix)
             ELSE GoInt0
    ELSE DecodeValue(raw)

ColumnNames(meta) == {meta[i][1].s : i \in 1..Len(meta)} \ {Placeholder}

\* The column that gives a name its value: the last one of that name.
LastOf(meta, name) ==
    CHOOSE i \in 1..Len(meta) :
        /\ meta[i][1].s = name
        /\ \A j \in (i + 1)..Len(meta) : meta[j][1].s # name

\* C10 as stated: one mapping per data row, in row order, with exactly the
\* column names other than `_` as keys and, per cell, the raw value without
\* convertNumber and the value converted by the column type with it.
C10_Original ==
    (qpc = "read" /\ PassesChecks /\ IsJson /\ httpResp.status = StatusOK
       /\ ~HasAppError /\ ~Malformed(Payload.column_meta)) =>
        /\ ~qdRes.panic
        /\ qdRes.err = NilErr
        /\ Len(qdRes.result) = Len(Payload.data)
        /\ \A k \in 1..Len(qdRes.result) :
             /\ DOMAIN qdRes.result[k] = ColumnNames(Payload.column_meta)
             /\ \A name \in ColumnNames(Payload.column_meta) :
                  LET i == LastOf(Payload.column_meta, name)
                      want == ClaimedCell(Payload.column_meta[i][2].s,
                                          Payload.data[k][i],
                                          convertNumber, defaultNumberValue)
                  IN  want # Unconstrained => qdRes.result[k][name] = want

\* --------------------------------------------- claims on the batch points
ClaimedUnits == {<<"n", "s">>, <<"u", "s">>, <<"m", "s">>, <<"s">>}

\* The unit a call asks for: the default for an empty configuration.
UnitAsked ==
    IF lastOp.op = "NewBatchPoints" /\ lastOp.arg = <<>> THEN DefaultPrecision
    ELSE lastOp.arg

\* C11 (as claimed): the precision of an existing BatchPoints is one of ns,
\* us, ms, s, and NewBatchPoints and SetPrecision return an error for every
\* other unit.
C11_Original ==
    /\ bp.exists => bp.precision \in ClaimedUnits
    /\ (lastOp.op \in {"NewBatchPoints", "SetPrecision"}
          /\ UnitAsked \notin ClaimedUnits)
         => lastOp.err # NilErr

C12_SetPrecisionStep ==
    lastOp'.op = "SetPrecision" =>
        /\ added' = added
        /\ IF lastOp'.err # NilErr
             THEN bp' = bp
             ELSE bp' = [bp EXCEPT !.precision = lastOp'.arg]

\* C12: a SetPrecision call that returns an error leaves the batch as it
\* was (precision, points, database); a call that returns nil changes the
\* precision to its argument and nothing else.
C12_FailedSetPrecisionChangesNothing == [][C12_SetPrecisionStep]_vars

\* A failed SetPrecision on a batch that holds points and a precision set
\* by an earlier successful SetPrecision.
C12_Witness ==
    /\ lastOp.op = "SetPrecision"
    /\ lastOp.err # NilErr
    /\ bp.points # <<>>
    /\ bp.precision = <<"s">>
    /\ bp.database = "db2"

RECURSIVE NonNil(_)
NonNil(ps) ==
    IF ps = <<>> THEN <<>>
    ELSE IF Head(ps) = NilPoint THEN NonNil(Tail(ps))
    ELSE <<Head(ps)>> \o NonNil(Tail(ps))

\* The content of the request body: what the server reads after undoing the
\* Content-Encoding.
BodyContent(r) == r.body.data

\* C13: the body client.Write sends is, for the points handed to AddPoint
\* and AddPoints in call order, one line per non-nil point, each the
\* PrecisionString of the point at the batch precision followed by a
\* newline; nil points add nothing and do not make Write fail.
C13_BodyIsOneLinePerNonNilPoint ==
    bpc = "written" =>
        LET r == requests[Len(requests)]
            pts == NonNil(added)
            data == BodyContent(r)
        IN  /\ r.body.gzip = (r.contentEncoding = GzipEncoding)
            /\ Len(data) = 2 * Len(pts)
            /\ \A i \in 1..Len(pts) :
                 /\ data[2 * i - 1] = PrecisionString(pts[i], bp.precision)
                 /\ data[2 * i] = NewLine
            /\ (/\ httpOutcome.doErr = NilErr
                /\ httpOutcome.readErr = NilErr
                /\ httpOutcome.status \in {StatusOK, StatusNoContent})
                 => wErr = NilErr

\* A write of a batch with a nil point between two points, one of them
\* added twice, that succeeds.
C13_Witness ==
    /\ bpc = "written"
    /\ added = <<DataPointOf(2), NilPoint, DataPointOf(2)>>
    /\ bp.precision = <<"u", "s">>
    /\ wErr = NilErr

BodyRead == httpOutcome.doErr = NilErr /\ httpOutcome.readErr = NilErr
SuccessStatus == httpOutcome.status \in {StatusOK, StatusNoContent}

\* C14 (as claimed): one request at most; nil exactly when the response
\* status is 200 or 204; for every other status an error whose text is the
\* response body.
C14_Original ==
    bpc = "written" =>
        /\ Len(requests) <= 1
        /\ httpOutcome.doErr = NilErr =>
              /\ (wErr = NilErr) <=> SuccessStatus
              /\ ~SuccessStatus => wErr = ErrorsNew(httpOutcome.body)

\* C14 (amended): client.Write issues one request and never repeats it; a
\* failure of the exchange or of reading the response body is returned as
\* it is, at every status; when the body was read, Write returns nil
\* exactly when the status is 200 or 204 and otherwise an error whose text
\* is the response body.
C14_StatusDecidesOnceBodyIsRead ==
    bpc = "written" =>
        /\ Len(requests) = 1
        /\ httpOutcome.doErr # NilErr => wErr = httpOutcome.doErr
        /\ (httpOutcome.doErr = NilErr /\ httpOutcome.readErr # NilErr)
             => wErr = httpOutcome.readErr
        /\ BodyRead =>
              /\ (wErr = NilErr) <=> SuccessStatus
              /\ ~SuccessStatus => wErr = ErrorsNew(httpOutcome.body)

\* A write answered 204 that returned nil (the other success status, 200,
\* and the error statuses are reached too).
C14_Witness ==
    /\ bpc = "written"
    /\ BodyRead
    /\ httpOutcome.status = StatusNoContent
    /\ wErr = NilErr
    /\ Len(requests) = 1

\* ------------------------------------------- claims on the configuration
\* What the claim calls a configuration error.
InvalidAddress ==
    \/ urlParse(cfg.Addr).err # NilErr
    \/ urlParse(cfg.Addr).scheme \notin {"http", "https"}
UnsupportedEncoding == cfg.WriteEncoding \notin {DefaultEncoding, GzipEncoding}
InvalidPrecision ==
    ParseDuration(<<"1">> \o (IF cfg.Precision = <<>> THEN DefaultPrecision
                               ELSE cfg.Precision)) # NilErr

\* C15 (as claimed): on a configuration error NewHTTPClient and
\* NewBatchPoints return an error and no object, and every QueryData,
\* WriteData and Close on the tsdbClient NewTDEngineClient built from it
\* returns an error, makes no network call and does not crash.
C15_Original ==
    /\ (cpc = "http" /\ (InvalidAddress \/ UnsupportedEncoding))
         => (hcRes.err # NilErr /\ ~hcRes.client.exists)
    /\ (cpc = "batch" /\ InvalidPrecision)
         => (nbRes.err # NilErr /\ ~nbRes.bp.exists)
    /\ (/\ cpc \in {"tsdb", "crashed"}
        /\ (InvalidAddress \/ InvalidPrecision)
        /\ callRes.op # "none")
         => (callRes.err # NilErr /\ ~callRes.network /\ ~callRes.panic)

\* ------------------------------------------------- claims on the escaper
ReservedChars == {",", "\"", " ", "="}
OverReserved(str) == SeqToSet(str) \subseteq ReservedChars

\* C16: for a string s of reserved characters (comma, double quote, space,
\* equals sign), UnescapeString(String0(s)) is s and every reserved
\* character of String0(s) comes right after a backslash; UnescapeString
\* gives back unchanged a string without a backslash.
C16_EscapeRoundTrip ==
    /\ (epc = "unescaped" /\ OverReserved(escIn)) => unOut = escIn
    /\ (epc \in {"escaped", "unescaped"} /\ OverReserved(escIn)) =>
          \A i \in 1..Len(escOut) :
              escOut[i] \in ReservedChars => (i > 1 /\ escOut[i - 1] = "\\")
    /\ (epc = "raw" /\ "\\" \notin SeqToSet(escIn)) => rawOut = escIn

\* The four reserved characters escaped and unescaped back.
C16_Witness ==
    /\ epc = "unescaped"
    /\ escIn = <<"=", ",", " ", "\"">>
    /\ Len(escOut) = 8
    /\ unOut = escIn

====
